---- MODULE Spec2Model ----
(***************************************************************************)
(* Model of the dense matrix engine of matrix_lib (src/src/matrix.hpp),    *)
(* instantiated at T = int.  A matrix is a record [rows, cols, data] whose *)
(* data is indexed from 0 as in the source: data[i][j], i < rows,          *)
(* j < cols.  A call's outcome is a record whose err field is "none" or    *)
(* the kind of the exception thrown:                                       *)
(*   OutOfRange        std::out_of_range                                   *)
(*   DimensionMismatch std::invalid_argument (operator+, -, * )            *)
(*   InvalidSize       std::invalid_argument (makeIdentity/makeZero)       *)
(*   NotSquare         std::logic_error ("Matrix must be square")          *)
(*   LengthMismatch    std::logic_error (setDiagonalMatrix, array length)  *)
(*   Singular          std::runtime_error                                  *)
(*   Crash             the process dies on an out-of-bounds access         *)
(* The sparse matrix of src/src/sparse_matrix/sparse_matrix.hpp is a       *)
(* record [rows, cols, rowsIndexes, colsIndexes, values].                  *)
(***************************************************************************)
EXTENDS Integers, Sequences, FiniteSets, TLC

VARIABLES mat,      \* the receiver (*this)
          other,    \* the matrix passed as argument
          ret,      \* outcome of the last call
          written,  \* ghost: last value written to each cell of mat
          tracked,  \* ghost: mat was changed by writes only since construction
          heap      \* allocated storage, by address (specification of ownership)

vars == <<mat, other, ret, written, tracked, heap>>

\* ---------------------------------------------------------------- constants
MIN_SIZE_MATRIX == 2

\* Largest dimension of the receiver in the stateful specification.
MaxDim == 2
\* Elements are drawn from 0..MaxVal (stateful) or -MaxVal..MaxVal (pure).
MaxVal == 1
\* Width of size_t in the model.  The build's size_t is wider; any width
\* far above MaxDim wraps a negative argument the same way.
SizeBits == 16

Vals == 0 .. MaxVal
SignedVals == (0 - MaxVal) .. MaxVal
Dims == 0 .. MaxDim
\* Arguments a caller may pass for an index, -1 included.
IndexArgs == (0 - 1) .. (MaxDim + 1)

\* ------------------------------------------------------------- construction
\* Conversion of an int argument to size_t.
ToSizeT(x) == x % (2 ^ SizeBits)

\* No storage is tracked: a matrix record carries its elements.
NoStorage == <<>>

\* initMatrix: rows_ rows of cols_ zero elements.
initMatrix(r, c) == [i \in 0 .. (r - 1) |-> [j \in 0 .. (c - 1) |-> 0]]

\* Matrix(rows, cols)
Matrix(r, c) == [rows |-> r, cols |-> c, data |-> initMatrix(r, c)]

\* Matrix(): MIN_SIZE_MATRIX x MIN_SIZE_MATRIX
DefaultMatrix == Matrix(MIN_SIZE_MATRIX, MIN_SIZE_MATRIX)

\* copyMatrix / operator=: a deep element-wise copy.
copyMatrix(M) ==
    [rows |-> M.rows, cols |-> M.cols,
     data |-> [i \in 0 .. (M.rows - 1) |-> [j \in 0 .. (M.cols - 1) |-> M.data[i][j]]]]

getRows(M) == M.rows
getCols(M) == M.cols

isSquareMatrix(M) == M.rows = M.cols

Ok(v) == [err |-> "none", val |-> v]
Throw(e) == [err |-> e, val |-> 0]

\* All r x c matrices over the element set S.
MatricesOf(r, c, S) ==
    { [rows |-> r, cols |-> c, data |-> d] :
        d \in [0 .. (r - 1) -> [0 .. (c - 1) -> S]] }

\* ------------------------------------------------------------ element access
\* operator()(row, col): the bounds check; TRUE when it throws.
AtThrows(M, row, col) == row >= M.rows \/ col >= M.cols

\* operator()(row, col) const: the element read.
At(M, row, col) ==
    IF AtThrows(M, row, col) THEN Throw("OutOfRange")
    ELSE Ok(M.data[row][col])

\* A write whose reference is to data_[col][row].
AtPutSwapped(M, row, col, v) ==
    IF AtThrows(M, row, col) THEN M
    ELSE [M EXCEPT !.data[col][row] = v]

\* operator()(row, col) = v: the matrix after the write through the reference.
AtPut(M, row, col, v) ==
    IF AtThrows(M, row, col) THEN M
    ELSE [M EXCEPT !.data[row][col] = v]

\* ------------------------------------------------------------------ factories
\* An identity factory that also rejects size == MIN_SIZE_MATRIX.
makeIdentityMatrixStrict(size) ==
    IF size <= MIN_SIZE_MATRIX THEN Throw("InvalidSize")
    ELSE Ok([rows |-> size, cols |-> size,
             data |-> [i \in 0 .. (size - 1) |->
                        [j \in 0 .. (size - 1) |-> IF i = j THEN 1 ELSE 0]]])

\* makeIdentityMatrix(size)
makeIdentityMatrix(size) ==
    IF size < MIN_SIZE_MATRIX THEN Throw("InvalidSize")
    ELSE Ok([rows |-> size, cols |-> size,
             data |-> [i \in 0 .. (size - 1) |->
                        [j \in 0 .. (size - 1) |-> IF i = j THEN 1 ELSE 0]]])

\* makeZeroMatrix(rows, cols)
makeZeroMatrix(r, c) ==
    IF r < MIN_SIZE_MATRIX \/ c < MIN_SIZE_MATRIX THEN Throw("InvalidSize")
    ELSE Ok([rows |-> r, cols |-> c,
             data |-> [i \in 0 .. (r - 1) |-> [j \in 0 .. (c - 1) |-> 0]]])

\* ------------------------------------------------------------------ transpose
\* transposeMatrix(), the in-place form: the loop "result(i, j) = data_[j][i]"
\* over i < rows_, j < cols_, iteration k = i * cols_ + j, where result was
\* built as Matrix(cols_, rows_).  The set of outcomes of the loop from
\* iteration k on.  data_[j][i] is an unchecked read: outside the buffer it
\* is undefined behaviour (the process dies, or some value is read);
\* result(i, j) is the checked operator().
RECURSIVE transposeLoop(_, _, _)
transposeLoop(M, R, k) ==
    IF k >= M.rows * M.cols THEN {Ok(R)}
    ELSE LET i == k \div M.cols
             j == k % M.cols
         IN  IF j >= M.rows \/ i >= M.cols
             THEN {Throw("Crash")} \cup
                  (IF AtThrows(R, i, j) THEN {Throw("OutOfRange")}
                   ELSE UNION { transposeLoop(M, AtPut(R, i, j, g), k + 1) :
                                  g \in SignedVals })
             ELSE IF AtThrows(R, i, j) THEN {Throw("OutOfRange")}
             ELSE transposeLoop(M, AtPut(R, i, j, M.data[j][i]), k + 1)

\* transposeMatrix(): the outcomes; on success *this = result.
transposeMatrix(M) == transposeLoop(M, Matrix(M.cols, M.rows), 0)

\* transposeMatrix(other), the const form: result is Matrix(cols_, rows_) and
\* the loop "result(j, i) = data_[i][j]" runs over i < rows_, j < cols_ of the
\* receiver; the parameter is named and never read.
transposeMatrixOf(This, Other) ==
    Ok([rows |-> This.cols, cols |-> This.rows,
        data |-> [j \in 0 .. (This.cols - 1) |->
                   [i \in 0 .. (This.rows - 1) |-> This.data[i][j]]]])

\* ------------------------------------------------------------------ arithmetic
\* An equality whose element test is inverted: two matrices of one shape are
\* reported different as soon as one pair of elements agrees.
OpEqInverted(L, R) ==
    IF L.rows # R.rows \/ L.cols # R.cols THEN FALSE
    ELSE \A i \in 0 .. (L.rows - 1), j \in 0 .. (L.cols - 1) : L.data[i][j] # R.data[i][j]

\* operator==
OpEq(L, R) ==
    IF L.rows # R.rows \/ L.cols # R.cols THEN FALSE
    ELSE \A i \in 0 .. (L.rows - 1), j \in 0 .. (L.cols - 1) : L.data[i][j] = R.data[i][j]

\* A sum whose dimension check joins its two tests with "and"; an element of
\* the argument outside its buffer reads as 0.
OpAddAndCheck(L, R) ==
    IF L.rows # R.rows /\ L.cols # R.cols THEN Throw("DimensionMismatch")
    ELSE Ok([rows |-> L.rows, cols |-> L.cols,
             data |-> [i \in 0 .. (L.rows - 1) |->
                        [j \in 0 .. (L.cols - 1) |->
                           L.data[i][j] +
                           (IF i < R.rows /\ j < R.cols THEN R.data[i][j] ELSE 0)]]])

\* operator+
OpAdd(L, R) ==
    IF L.rows # R.rows \/ L.cols # R.cols THEN Throw("DimensionMismatch")
    ELSE Ok([rows |-> L.rows, cols |-> L.cols,
             data |-> [i \in 0 .. (L.rows - 1) |->
                        [j \in 0 .. (L.cols - 1) |-> L.data[i][j] + R.data[i][j]]]])

\* operator-
OpSub(L, R) ==
    IF L.rows # R.rows \/ L.cols # R.cols THEN Throw("DimensionMismatch")
    ELSE Ok([rows |-> L.rows, cols |-> L.cols,
             data |-> [i \in 0 .. (L.rows - 1) |->
                        [j \in 0 .. (L.cols - 1) |-> L.data[i][j] - R.data[i][j]]]])

\* operator*: result.data_[i][j] after the first k iterations of the inner
\* loop "result.data_[i][j] += data_[i][k] * other.data_[k][j]".
RECURSIVE MulAcc(_, _, _, _, _)
MulAcc(L, R, i, j, k) ==
    IF k <= 0 THEN 0
    ELSE MulAcc(L, R, i, j, k - 1) + L.data[i][k - 1] * R.data[k - 1][j]

\* A product whose inner loop stops one iteration early.
OpMulShortLoop(L, R) ==
    IF L.cols # R.rows THEN Throw("DimensionMismatch")
    ELSE Ok([rows |-> L.rows, cols |-> R.cols,
             data |-> [i \in 0 .. (L.rows - 1) |->
                        [j \in 0 .. (R.cols - 1) |-> MulAcc(L, R, i, j, L.cols - 1)]]])

\* operator*(const Matrix&)
OpMul(L, R) ==
    IF L.cols # R.rows THEN Throw("DimensionMismatch")
    ELSE Ok([rows |-> L.rows, cols |-> R.cols,
             data |-> [i \in 0 .. (L.rows - 1) |->
                        [j \in 0 .. (R.cols - 1) |-> MulAcc(L, R, i, j, L.cols)]]])

\* operator*(const T scalar)
OpScale(M, scalar) ==
    [rows |-> M.rows, cols |-> M.cols,
     data |-> [i \in 0 .. (M.rows - 1) |->
                [j \in 0 .. (M.cols - 1) |-> M.data[i][j] * scalar]]]

\* Division of ints: the quotient truncated towards zero.
IntDiv(x, y) ==
    LET ax == IF x < 0 THEN 0 - x ELSE x
        ay == IF y < 0 THEN 0 - y ELSE y
    IN  IF (x < 0) = (y < 0) THEN ax \div ay ELSE 0 - (ax \div ay)

\* ---------------------------------------------- determinant, cofactor, inverse
\* determinant(): the minor built for column i of the first row.  Every
\* column of the minor is filled from data_[j][i].
detMinor(M, i) ==
    [rows |-> M.rows - 1, cols |-> M.cols - 1,
     data |-> [jm \in 0 .. (M.rows - 2) |->
                [minorIndex \in 0 .. (M.cols - 2) |-> M.data[jm + 1][i]]]]

RECURSIVE determinant(_)
RECURSIVE detLoop(_, _)

\* determinant(): det after the first n iterations of the loop over columns.
detLoop(M, n) ==
    IF n <= 0 THEN 0
    ELSE LET i == n - 1
             d == determinant(detMinor(M, i)).val
         IN  detLoop(M, n - 1) +
             (IF i % 2 = 0 THEN M.data[0][i] * d ELSE (0 - M.data[0][i]) * d)

\* determinant()
determinant(M) ==
    IF ~isSquareMatrix(M) THEN Throw("NotSquare")
    ELSE IF M.rows = 1 THEN Ok(M.data[0][0])
    ELSE IF M.rows = 2
         THEN Ok(M.data[0][0] * M.data[1][1] - M.data[0][1] * M.data[1][0])
    ELSE Ok(detLoop(M, M.cols))

\* cofactorMatrix(): the minor built for entry (i, j).  Its rows are
\* data_[m + 1], its columns those n # j; i is not used.
cofactorMinor(M, i, j) ==
    [rows |-> M.rows - 1, cols |-> M.cols - 1,
     data |-> [m \in 0 .. (M.rows - 2) |->
                [minorIndex \in 0 .. (M.cols - 2) |->
                    M.data[m + 1][IF minorIndex < j THEN minorIndex
                                  ELSE minorIndex + 1]]]]

\* cofactorMatrix()
cofactorMatrix(M) ==
    IF ~isSquareMatrix(M) THEN Throw("NotSquare")
    ELSE Ok([rows |-> M.rows, cols |-> M.cols,
             data |-> [i \in 0 .. (M.rows - 1) |->
                        [j \in 0 .. (M.cols - 1) |->
                           LET d == determinant(cofactorMinor(M, i, j)).val
                           IN  IF (i + j) % 2 = 0 THEN d ELSE 0 - d]]])

\* adjugateMatrix(): cofactorMatrix() with transposeMatrix() applied to it.
\* (The source returns the value of the void in-place form; the model takes
\* the transposed temporary, as the declaration's comment describes.)
adjugateMatrix(M) ==
    LET c == cofactorMatrix(M)
    IN  IF c.err # "none" THEN c
        ELSE CHOOSE o \in transposeMatrix(c.val) : TRUE

\* inverseMatrix()
inverseMatrix(M) ==
    IF ~isSquareMatrix(M) THEN Throw("NotSquare")
    ELSE LET det == determinant(M).val
         IN  IF det = 0 THEN Throw("Singular")
             ELSE LET adjugate == adjugateMatrix(M)
                  IN  IF adjugate.err # "none" THEN adjugate
                      ELSE Ok(OpScale(adjugate.val, IntDiv(1, det)))

\* inverseMatrix(other): the checks and the determinant are other's, the
\* adjugate is the receiver's.
inverseMatrixOf(This, Other) ==
    IF ~isSquareMatrix(Other) THEN Throw("NotSquare")
    ELSE LET det == determinant(Other).val
         IN  IF det = 0 THEN Throw("Singular")
             ELSE LET adjugate == adjugateMatrix(This)
                  IN  IF adjugate.err # "none" THEN adjugate
                      ELSE Ok(OpScale(adjugate.val, IntDiv(1, det)))

\* ------------------------------------------------- the stateful specification
NoCall == [op |-> "none", err |-> "none", val |-> 0, args |-> <<>>, pre |-> DefaultMatrix]

Call(op, args, pre, out) ==
    [op |-> op, err |-> out.err, val |-> out.val, args |-> args, pre |-> pre]

Cells == (0 .. (MaxDim - 1)) \X (0 .. (MaxDim - 1))
NothingWritten == [c \in Cells |-> 0]

Init ==
    /\ mat = DefaultMatrix
    /\ other = DefaultMatrix
    /\ ret = NoCall
    /\ written = NothingWritten
    /\ tracked = TRUE
    /\ heap = NoStorage

\* The process is running: no earlier call ended it.
Alive == ret.err # "Crash"

\* Matrix<int> mat(r, c);
Construct ==
    \E r \in Dims, c \in Dims :
        /\ Alive
        /\ mat' = Matrix(r, c)
        /\ ret' = Call("Matrix", <<r, c>>, mat, Ok(0))
        /\ written' = NothingWritten
        /\ tracked' = TRUE
        /\ UNCHANGED <<other, heap>>

\* mat(row, col) = v;
Write ==
    \E row \in IndexArgs, col \in IndexArgs, v \in Vals :
        LET r == ToSizeT(row)
            c == ToSizeT(col)
        IN  /\ Alive
            /\ mat' = AtPut(mat, r, c, v)
            /\ ret' = Call("write", <<row, col, v>>, mat,
                           IF AtThrows(mat, r, c) THEN Throw("OutOfRange") ELSE Ok(v))
            /\ written' = IF tracked /\ <<row, col>> \in Cells
                                     /\ row < mat.rows /\ col < mat.cols
                          THEN [written EXCEPT ![<<row, col>>] = v]
                          ELSE written
            /\ UNCHANGED <<other, tracked, heap>>

\* x = mat(row, col);
Read ==
    \E row \in IndexArgs, col \in IndexArgs :
        /\ Alive
        /\ ret' = Call("read", <<row, col>>, mat, At(mat, ToSizeT(row), ToSizeT(col)))
        /\ UNCHANGED <<mat, other, written, tracked, heap>>

\* mat.makeIdentityMatrix(size);
MakeIdentity ==
    \E size \in 0 .. (MaxDim + 1) :
        /\ Alive
        /\ ret' = Call("makeIdentityMatrix", <<size>>, mat, makeIdentityMatrix(size))
        /\ UNCHANGED <<mat, other, written, tracked, heap>>

\* mat.makeZeroMatrix(rows, cols);
MakeZero ==
    \E r \in 0 .. (MaxDim + 1), c \in 0 .. (MaxDim + 1) :
        /\ Alive
        /\ ret' = Call("makeZeroMatrix", <<r, c>>, mat, makeZeroMatrix(r, c))
        /\ UNCHANGED <<mat, other, written, tracked, heap>>

\* mat.transposeMatrix();
TransposeInPlace ==
    \E o \in transposeMatrix(mat) :
        /\ Alive
        /\ mat' = IF o.err = "none" THEN copyMatrix(o.val) ELSE mat
        /\ ret' = Call("transposeMatrix", <<>>, mat, Throw(o.err))
        /\ tracked' = (o.err # "none" /\ tracked)
        /\ written' = IF o.err = "none" THEN NothingWritten ELSE written
        /\ UNCHANGED <<other, heap>>

Next ==
    \/ Construct
    \/ Write
    \/ Read
    \/ MakeIdentity
    \/ MakeZero
    \/ TransposeInPlace

Spec == Init /\ [][Next]_vars

\* --------------------------------------- specification of the binary operations
\* Every matrix over S with both dimensions in D.
AllMatrices(D, S) == UNION { MatricesOf(r, c, S) : r \in D, c \in D }

\* Both operands are drawn from every matrix of at most MaxDim x MaxDim.
InitBinary ==
    /\ mat \in AllMatrices(Dims, SignedVals)
    /\ other \in AllMatrices(Dims, SignedVals)
    /\ ret = NoCall
    /\ written = NothingWritten
    /\ tracked = FALSE
    /\ heap = NoStorage

\* mat + other
Add ==
    /\ ret' = Call("operator+", <<other>>, mat, OpAdd(mat, other))
    /\ UNCHANGED <<mat, other, written, tracked, heap>>

\* mat - other
Sub ==
    /\ ret' = Call("operator-", <<other>>, mat, OpSub(mat, other))
    /\ UNCHANGED <<mat, other, written, tracked, heap>>

\* mat * other
Mul ==
    /\ ret' = Call("operator*", <<other>>, mat, OpMul(mat, other))
    /\ UNCHANGED <<mat, other, written, tracked, heap>>

\* mat.inverseMatrix(other)
InverseOf ==
    /\ ret' = Call("inverseMatrix(other)", <<other>>, mat, inverseMatrixOf(mat, other))
    /\ UNCHANGED <<mat, other, written, tracked, heap>>

\* mat.transposeMatrix(other)
TransposeOf ==
    /\ ret' = Call("transposeMatrix(other)", <<other>>, mat, transposeMatrixOf(mat, other))
    /\ UNCHANGED <<mat, other, written, tracked, heap>>

NextBinary ==
    \/ Add
    \/ Sub
    \/ Mul
    \/ InverseOf
    \/ TransposeOf

SpecBinary == InitBinary /\ [][NextBinary]_vars

\* ------------------------------------------------------------------ predicates
\* isUpperTriangularMatrix(): the loop reads data_[i][j] for i < rows_, j < i
\* in row order and answers false at the first non-zero element.  With more
\* than cols_ + 1 rows it reads past the end of a row: the process dies, or
\* some value is read.  The set of outcomes.
isUpperTriangularMatrix(M) ==
    LET below == { p \in (0 .. (M.rows - 1)) \X (0 .. (M.rows - 1)) : p[2] < p[1] }
        outside == { p \in below : p[2] >= M.cols }
        nonzero == { p \in below \ outside : M.data[p[1]][p[2]] # 0 }
        Before(p, q) == p[1] < q[1] \/ (p[1] = q[1] /\ p[2] < q[2])
    IN  IF outside = {} THEN {Ok(nonzero = {})}
        ELSE IF \E p \in nonzero : \A q \in outside : Before(p, q) THEN {Ok(FALSE)}
        ELSE {Throw("Crash"), Ok(FALSE)} \cup (IF nonzero = {} THEN {Ok(TRUE)} ELSE {})

\* isLowerTriangularMatrix()
isLowerTriangularMatrix(M) ==
    \A i \in 0 .. (M.rows - 1) : \A j \in (i + 1) .. (M.cols - 1) : M.data[i][j] = 0

\* isDiagonalMatrix(): false at the first non-zero element off the diagonal
\* and at the first zero element on it; squareness is not tested.
isDiagonalMatrix(M) ==
    \A i \in 0 .. (M.rows - 1), j \in 0 .. (M.cols - 1) :
        /\ ~(i # j /\ M.data[i][j] # 0)
        /\ ~(i = j /\ M.data[i][j] = 0)

\* The transposed copy of a square matrix that isOrthogonalMatrix() and
\* isNormalMatrix() hold in their local "transpose".  (The source spells it
\* this->transpose(), which class Matrix does not declare, and
\* this->transposeMatrix(), which returns void; the model takes the result
\* the in-place form assigns.)
transposedCopy(M) == (CHOOSE o \in transposeMatrix(M) : TRUE).val

\* isOrthogonalMatrix().  (The source spells the identity
\* Matrix<T>::identity(rows_), which class Matrix does not declare, and the
\* second product "transpose * this"; the model takes the factory of the
\* class, makeIdentityMatrix(rows_), as isNormalMatrix() does, and
\* transpose * (*this).)
isOrthogonalMatrix(M) ==
    IF ~isSquareMatrix(M) THEN Ok(FALSE)
    ELSE LET transpose == transposedCopy(M)
             identity == makeIdentityMatrix(M.rows)
         IN  IF identity.err # "none" THEN identity
             ELSE Ok(\/ OpEq(OpMul(M, transpose).val, identity.val)
                     \/ OpEq(OpMul(transpose, M).val, identity.val))

\* isNormalMatrix()
isNormalMatrix(M) ==
    IF ~isSquareMatrix(M) THEN Ok(FALSE)
    ELSE LET transpose == transposedCopy(M)
             identity == makeIdentityMatrix(M.rows)
         IN  IF identity.err # "none" THEN identity
             ELSE Ok(/\ OpEq(OpMul(M, transpose).val, OpMul(transpose, M).val)
                     /\ OpEq(OpMul(M, identity.val).val, identity.val))

\* ------------------------------------------------ operations on the receiver
\* The effect of a member function that may write the receiver: the receiver
\* after the call and the outcome of the call.
Effect(this, out) == [this |-> this, out |-> out]

\* operator=(const Matrix&) with a temporary as argument: freeMemoryMatrix(),
\* then copyMatrix(other).
OpAssign(This, Other) == copyMatrix(Other)

\* A compound assignment that releases the receiver's storage before the
\* sum is built, and adds to the emptied receiver.
OpAddAssignFreeFirst(This, Other) ==
    LET freed == Matrix(0, 0)
        sum == OpAdd(freed, Other)
    IN  IF sum.err # "none" THEN Effect(freed, sum)
        ELSE Effect(OpAssign(freed, sum.val), Ok(0))

\* operator+=: *this = *this + other
OpAddAssign(This, Other) ==
    LET sum == OpAdd(This, Other)
    IN  IF sum.err # "none" THEN Effect(This, sum)
        ELSE Effect(OpAssign(This, sum.val), Ok(0))

\* operator-=: *this = *this - other
OpSubAssign(This, Other) ==
    LET diff == OpSub(This, Other)
    IN  IF diff.err # "none" THEN Effect(This, diff)
        ELSE Effect(OpAssign(This, diff.val), Ok(0))

\* operator*=(const Matrix&): *this = *this * other
OpMulAssign(This, Other) ==
    LET prod == OpMul(This, Other)
    IN  IF prod.err # "none" THEN Effect(This, prod)
        ELSE Effect(OpAssign(This, prod.val), Ok(0))

\* setIdentityMatrix()
setIdentityMatrix(M) ==
    IF ~isSquareMatrix(M) THEN Effect(M, Throw("NotSquare"))
    ELSE Effect([M EXCEPT !.data = [i \in 0 .. (M.rows - 1) |->
                                     [j \in 0 .. (M.cols - 1) |->
                                        IF i = j THEN 1 ELSE 0]]],
                Ok(0))

\* An argument of setDiagonalMatrix: a null pointer, or an array with its
\* length; diagonalArray[i] is elems[i + 1].
NullArray(len) == [null |-> TRUE, elems |-> <<>>, len |-> len]
ArrayOf(elems) == [null |-> FALSE, elems |-> elems, len |-> Len(elems)]

\* setDiagonalMatrix(diagonalArray, diagonalArrayLength)
setDiagonalMatrix(M, diagonalArray) ==
    IF ~isSquareMatrix(M) THEN Effect(M, Throw("NotSquare"))
    ELSE IF diagonalArray.null \/ diagonalArray.len # M.rows
         THEN Effect(M, Throw("LengthMismatch"))
    ELSE Effect([M EXCEPT !.data = [i \in 0 .. (M.rows - 1) |->
                                     [j \in 0 .. (M.cols - 1) |->
                                        IF i = j THEN diagonalArray.elems[i + 1]
                                        ELSE 0]]],
                Ok(0))

\* setTriangularMatrix(value, isUpper)
setTriangularMatrix(M, value, isUpper) ==
    IF ~isSquareMatrix(M) THEN Effect(M, Throw("NotSquare"))
    ELSE Effect([M EXCEPT !.data = [i \in 0 .. (M.rows - 1) |->
                                     [j \in 0 .. (M.cols - 1) |->
                                        IF i < j /\ isUpper THEN 0
                                        ELSE IF i > j /\ ~isUpper THEN 0
                                        ELSE value]]],
                Ok(0))

\* ------------------------------------------- specification of sums of matrices
\* L + R for the outcome L of a subexpression: its exception, if it raised
\* one, ends the expression.
AddToOutcome(L, R) == IF L.err # "none" THEN L ELSE OpAdd(L.val, R)

\* L + R for the outcome R of a subexpression.
AddOutcome(L, R) == IF R.err # "none" THEN R ELSE OpAdd(L, R.val)

\* L == R for the outcomes of two subexpressions, the left one evaluated first.
EqOutcomes(L, R) ==
    IF L.err # "none" THEN L
    ELSE IF R.err # "none" THEN R
    ELSE Ok(OpEq(L.val, R.val))

\* (A + B) + C == A + (B + C)
SumAssociates(A, B, C) ==
    EqOutcomes(AddToOutcome(OpAdd(A, B), C), AddOutcome(A, OpAdd(B, C)))

\* A + B == B + A
SumCommutes(A, B) == EqOutcomes(OpAdd(A, B), OpAdd(B, A))

\* A + Matrix<T>(A.getRows(), A.getCols()) == A
SumWithZero(A) == EqOutcomes(OpAdd(A, Matrix(getRows(A), getCols(A))), Ok(A))

\* (mat + other) + C == mat + (other + C), C of the shape of other
Associate ==
    \E C \in MatricesOf(other.rows, other.cols, Vals) :
        /\ ret' = Call("(A+B)+C==A+(B+C)", <<other, C>>, mat, SumAssociates(mat, other, C))
        /\ UNCHANGED <<mat, other, written, tracked, heap>>

\* mat + other == other + mat
Commute ==
    /\ ret' = Call("A+B==B+A", <<other>>, mat, SumCommutes(mat, other))
    /\ UNCHANGED <<mat, other, written, tracked, heap>>

\* mat + zero == mat
AddZero ==
    /\ ret' = Call("A+zero==A", <<>>, mat, SumWithZero(mat))
    /\ UNCHANGED <<mat, other, written, tracked, heap>>

NextSum ==
    \/ Associate
    \/ Commute
    \/ AddZero

SpecSum == InitBinary /\ [][NextSum]_vars

\* ---------------------------------------- specification of the unary operations
\* Largest matrix given to determinant, cofactorMatrix and inverseMatrix.
DetDim == 3

\* Every square matrix over S of size 1 .. n.
SquareMatrices(n, S) == UNION { MatricesOf(k, k, S) : k \in 1 .. n }

\* Every non-square matrix over S with both dimensions in 1 .. n.
OblongMatrices(n, S) ==
    UNION { MatricesOf(p[1], p[2], S) :
              p \in { q \in (1 .. n) \X (1 .. n) : q[1] # q[2] } }

InitUnary ==
    /\ mat \in SquareMatrices(DetDim, SignedVals) \cup OblongMatrices(MaxDim, Vals)
    /\ other = DefaultMatrix
    /\ ret = NoCall
    /\ written = NothingWritten
    /\ tracked = FALSE
    /\ heap = NoStorage

\* mat.determinant()
Determinant ==
    /\ ret' = Call("determinant", <<>>, mat, determinant(mat))
    /\ UNCHANGED <<mat, other, written, tracked, heap>>

\* mat.cofactorMatrix()
Cofactor ==
    /\ ret' = Call("cofactorMatrix", <<>>, mat, cofactorMatrix(mat))
    /\ UNCHANGED <<mat, other, written, tracked, heap>>

\* mat.inverseMatrix()
Inverse ==
    /\ ret' = Call("inverseMatrix", <<>>, mat, inverseMatrix(mat))
    /\ UNCHANGED <<mat, other, written, tracked, heap>>

\* mat.isDiagonalMatrix()
IsDiagonal ==
    /\ ret' = Call("isDiagonalMatrix", <<>>, mat, Ok(isDiagonalMatrix(mat)))
    /\ UNCHANGED <<mat, other, written, tracked, heap>>

\* mat.isOrthogonalMatrix()
IsOrthogonal ==
    /\ ret' = Call("isOrthogonalMatrix", <<>>, mat, isOrthogonalMatrix(mat))
    /\ UNCHANGED <<mat, other, written, tracked, heap>>

\* mat.isNormalMatrix()
IsNormal ==
    /\ ret' = Call("isNormalMatrix", <<>>, mat, isNormalMatrix(mat))
    /\ UNCHANGED <<mat, other, written, tracked, heap>>

NextUnary ==
    \/ Determinant
    \/ Cofactor
    \/ Inverse
    \/ IsDiagonal
    \/ IsOrthogonal
    \/ IsNormal

SpecUnary == InitUnary /\ [][NextUnary]_vars

\* ------------------------------- specification of the calls on a drawn receiver
\* The arrays handed to setDiagonalMatrix: every array over Vals of length
\* 0 .. MaxDim, and a null pointer announced with length MaxDim.
DiagonalArgs ==
    {NullArray(MaxDim)} \cup
    { ArrayOf(elems) : elems \in UNION { [1 .. n -> Vals] : n \in 0 .. MaxDim } }

InitReceiver ==
    /\ mat \in AllMatrices(Dims, SignedVals)
    /\ other \in AllMatrices(Dims, Vals)
    /\ ret = NoCall
    /\ written = NothingWritten
    /\ tracked = FALSE
    /\ heap = NoStorage

\* The operands are as drawn: one call is made on each drawn pair.
Untouched == ret.op = "none"

\* mat += other
AddAssign ==
    LET e == OpAddAssign(mat, other)
    IN  /\ Untouched
        /\ mat' = e.this
        /\ ret' = Call("operator+=", <<other>>, mat, e.out)
        /\ UNCHANGED <<other, written, tracked, heap>>

\* mat -= other
SubAssign ==
    LET e == OpSubAssign(mat, other)
    IN  /\ Untouched
        /\ mat' = e.this
        /\ ret' = Call("operator-=", <<other>>, mat, e.out)
        /\ UNCHANGED <<other, written, tracked, heap>>

\* mat *= other
MulAssign ==
    LET e == OpMulAssign(mat, other)
    IN  /\ Untouched
        /\ mat' = e.this
        /\ ret' = Call("operator*=", <<other>>, mat, e.out)
        /\ UNCHANGED <<other, written, tracked, heap>>

\* mat.setIdentityMatrix()
SetIdentity ==
    LET e == setIdentityMatrix(mat)
    IN  /\ Untouched
        /\ mat' = e.this
        /\ ret' = Call("setIdentityMatrix", <<>>, mat, e.out)
        /\ UNCHANGED <<other, written, tracked, heap>>

\* mat.setDiagonalMatrix(diagonalArray, diagonalArrayLength)
SetDiagonal ==
    \E diagonalArray \in DiagonalArgs :
        LET e == setDiagonalMatrix(mat, diagonalArray)
        IN  /\ Untouched
            /\ mat' = e.this
            /\ ret' = Call("setDiagonalMatrix", <<diagonalArray>>, mat, e.out)
            /\ UNCHANGED <<other, written, tracked, heap>>

\* mat.setTriangularMatrix(value, isUpper)
SetTriangular ==
    \E value \in SignedVals, isUpper \in BOOLEAN :
        LET e == setTriangularMatrix(mat, value, isUpper)
        IN  /\ Untouched
            /\ mat' = e.this
            /\ ret' = Call("setTriangularMatrix", <<value, isUpper>>, mat, e.out)
            /\ UNCHANGED <<other, written, tracked, heap>>

NextReceiver ==
    \/ AddAssign
    \/ SubAssign
    \/ MulAssign
    \/ SetIdentity
    \/ SetDiagonal
    \/ SetTriangular
    \/ Untouched /\ TransposeInPlace
    \/ Untouched /\ Determinant
    \/ Untouched /\ Cofactor
    \/ Untouched /\ Inverse

SpecReceiver == InitReceiver /\ [][NextReceiver]_vars

\* --------------------------------------------------- specification of ownership
\* Here a matrix is a handle [rows, cols, data] whose data is the address its
\* unique_ptr holds, Null for the null pointer; heap[a] tells whether address
\* a is still allocated and holds the rows stored there.  Addresses are not
\* reused.
Null == 0

\* Allocations in one behaviour.
MaxAllocs == 4

Handle(r, c, a) == [rows |-> r, cols |-> c, data |-> a]

Live(h, a) == a \in 1 .. Len(h) /\ h[a].live

\* std::make_unique: the storage is appended at the next address.
Allocate(h, rows) == Append(h, [live |-> TRUE, rows |-> rows])

\* unique_ptr::reset() and ~unique_ptr(): the storage owned, if any, is freed.
Release(h, a) ==
    IF Live(h, a) THEN [h EXCEPT ![a] = [live |-> FALSE, rows |-> <<>>]] ELSE h

\* The matrix a handle stands for.
ValueOf(h, M) ==
    [rows |-> M.rows, cols |-> M.cols,
     data |-> IF Live(h, M.data) THEN h[M.data].rows ELSE <<>>]

\* data_[i] is evaluated for some i < rows_ while data_ owns nothing.
Dangling(h, M) == M.rows > 0 /\ ~Live(h, M.data)

\* A copy that takes over the address of the source instead of allocating.
copyMatrixShared(h, Other) ==
    [this |-> Handle(Other.rows, Other.cols, Other.data), heap |-> h, err |-> "none"]

\* copyMatrix(other) on a receiver that owns nothing: initMatrix() allocates
\* rows_ rows, then each row of other is copied.
copyMatrixFresh(h, Other) ==
    LET this == Handle(Other.rows, Other.cols, Len(h) + 1)
    IN  IF Dangling(h, Other)
        THEN [this |-> this, heap |-> Allocate(h, initMatrix(Other.rows, Other.cols)),
              err |-> "Crash"]
        ELSE [this |-> this,
              heap |-> Allocate(h, [i \in 0 .. (Other.rows - 1) |->
                                     [j \in 0 .. (Other.cols - 1) |->
                                        h[Other.data].rows[i][j]]]),
              err |-> "none"]

\* Matrix(Matrix&& other)
moveMatrix(Other) ==
    [this |-> Handle(Other.rows, Other.cols, Other.data), other |-> Handle(0, 0, Null)]

\* operator()(row, col) = v on a handle
putElement(h, M, row, col, v) ==
    IF row >= M.rows \/ col >= M.cols THEN [heap |-> h, out |-> Throw("OutOfRange")]
    ELSE IF ~Live(h, M.data) THEN [heap |-> h, out |-> Throw("Crash")]
    ELSE [heap |-> [h EXCEPT ![M.data].rows[row][col] = v], out |-> Ok(v)]

\* operator== on handles
equalHandles(h, L, R) ==
    IF L.rows # R.rows \/ L.cols # R.cols THEN Ok(FALSE)
    ELSE IF L.cols > 0 /\ (Dangling(h, L) \/ Dangling(h, R)) THEN Throw("Crash")
    ELSE Ok(OpEq(ValueOf(h, L), ValueOf(h, R)))

\* isZeroMatrix() on a handle
isZeroHandle(h, M) ==
    IF M.cols > 0 /\ Dangling(h, M) THEN Throw("Crash")
    ELSE Ok(\A i \in 0 .. (M.rows - 1), j \in 0 .. (M.cols - 1) : h[M.data].rows[i][j] = 0)

\* The two matrices before a call.
Before == [A |-> ValueOf(heap, mat), B |-> ValueOf(heap, other)]

\* Matrix<int> A(rows, cols, array); Matrix<int> B;
InitOwnership ==
    /\ \E M \in AllMatrices(Dims, Vals) :
          /\ mat = Handle(M.rows, M.cols, 1)
          /\ heap = Allocate(Allocate(NoStorage, M.data),
                             initMatrix(MIN_SIZE_MATRIX, MIN_SIZE_MATRIX))
    /\ other = Handle(MIN_SIZE_MATRIX, MIN_SIZE_MATRIX, 2)
    /\ ret = NoCall
    /\ written = NothingWritten
    /\ tracked = FALSE

\* Matrix<int> B(std::move(A)); the B before it is destroyed.
MoveConstruct ==
    LET m == moveMatrix(mat)
    IN  /\ Alive
        /\ other' = m.this
        /\ mat' = m.other
        /\ heap' = Release(heap, other.data)
        /\ ret' = Call("Matrix(Matrix&&)", <<>>, Before, Ok(0))
        /\ UNCHANGED <<written, tracked>>

\* Matrix<int> B(A); the B before it is destroyed.
CopyConstruct ==
    LET c == copyMatrixFresh(Release(heap, other.data), mat)
    IN  /\ Alive
        /\ Len(heap) < MaxAllocs
        /\ other' = c.this
        /\ heap' = c.heap
        /\ ret' = Call("Matrix(const Matrix&)", <<>>, Before, Throw(c.err))
        /\ UNCHANGED <<mat, written, tracked>>

\* B = A: freeMemoryMatrix(), then copyMatrix(A)
CopyAssign ==
    LET c == copyMatrixFresh(Release(heap, other.data), mat)
    IN  /\ Alive
        /\ Len(heap) < MaxAllocs
        /\ other' = c.this
        /\ heap' = c.heap
        /\ ret' = Call("B=A", <<>>, Before, Throw(c.err))
        /\ UNCHANGED <<mat, written, tracked>>

\* A = B
CopyAssignBack ==
    LET c == copyMatrixFresh(Release(heap, mat.data), other)
    IN  /\ Alive
        /\ Len(heap) < MaxAllocs
        /\ mat' = c.this
        /\ heap' = c.heap
        /\ ret' = Call("A=B", <<>>, Before, Throw(c.err))
        /\ UNCHANGED <<other, written, tracked>>

\* A(row, col) = v
WriteA ==
    \E row \in Dims, col \in Dims, v \in Vals :
        LET p == putElement(heap, mat, row, col, v)
        IN  /\ Alive
            /\ heap' = p.heap
            /\ ret' = Call("A(row,col)=v", <<row, col, v>>, Before, p.out)
            /\ UNCHANGED <<mat, other, written, tracked>>

\* B(row, col) = v
WriteB ==
    \E row \in Dims, col \in Dims, v \in Vals :
        LET p == putElement(heap, other, row, col, v)
        IN  /\ Alive
            /\ heap' = p.heap
            /\ ret' = Call("B(row,col)=v", <<row, col, v>>, Before, p.out)
            /\ UNCHANGED <<mat, other, written, tracked>>

\* A == B
EqualsAB ==
    /\ Alive
    /\ ret' = Call("A==B", <<>>, Before, equalHandles(heap, mat, other))
    /\ UNCHANGED <<mat, other, written, tracked, heap>>

\* A.isZeroMatrix()
IsZeroA ==
    /\ Alive
    /\ ret' = Call("A.isZeroMatrix", <<>>, Before, isZeroHandle(heap, mat))
    /\ UNCHANGED <<mat, other, written, tracked, heap>>

NextOwnership ==
    \/ MoveConstruct
    \/ CopyConstruct
    \/ CopyAssign
    \/ CopyAssignBack
    \/ WriteA
    \/ WriteB
    \/ EqualsAB
    \/ IsZeroA

SpecOwnership == InitOwnership /\ [][NextOwnership]_vars

\* --------------------------------------------------------------- sparse matrix
\* SparseMatrix<int> (src/src/sparse_matrix/sparse_matrix.hpp): rows_, cols_
\* and three parallel vectors, here sequences indexed from 1 (values[i] of
\* the source is values[i + 1]).
SparseMatrix(r, c) ==
    [rows |-> r, cols |-> c, rowsIndexes |-> <<>>, colsIndexes |-> <<>>, values |-> <<>>]

\* Entries one sparse matrix holds at most.
MaxEntries == 3

\* addValue(row, col, value)
addValue(M, row, col, value) ==
    IF row >= M.rows \/ col >= M.cols THEN Effect(M, Throw("OutOfRange"))
    ELSE IF value # 0
         THEN Effect([M EXCEPT !.rowsIndexes = Append(@, row),
                               !.colsIndexes = Append(@, col),
                               !.values = Append(@, value)],
                     Ok(0))
    ELSE Effect(M, Ok(0))

\* getValue(row, col): the value of the first entry at (row, col), else 0.
getValue(M, row, col) ==
    IF row >= M.rows \/ col >= M.cols THEN Throw("OutOfRange")
    ELSE LET hits == { i \in 1 .. Len(M.values) :
                         M.rowsIndexes[i] = row /\ M.colsIndexes[i] = col }
         IN  IF hits = {} THEN Ok(0)
             ELSE Ok(M.values[CHOOSE i \in hits : \A k \in hits : i <= k])

\* scaleSparseMatrix(scalar): every stored value is multiplied in place.
scaleSparseMatrix(M, scalar) ==
    [M EXCEPT !.values = [i \in 1 .. Len(M.values) |-> M.values[i] * scalar]]

\* operator*(scalar): a copy whose stored values are multiplied.
OpScaleSparse(M, scalar) ==
    [M EXCEPT !.values = [i \in 1 .. Len(M.values) |-> M.values[i] * scalar]]

\* clearSparseMatrix()
clearSparseMatrix(M) ==
    [M EXCEPT !.rowsIndexes = <<>>, !.colsIndexes = <<>>, !.values = <<>>]

\* The loop of fillDiagonalSparseMatrix from index i on: addValue(i, i, value).
RECURSIVE fillDiagonalLoop(_, _, _, _)
fillDiagonalLoop(M, value, i, minDim) ==
    IF i >= minDim THEN M
    ELSE fillDiagonalLoop(addValue(M, i, i, value).this, value, i + 1, minDim)

\* fillDiagonalSparseMatrix(value)
fillDiagonalSparseMatrix(M, value) ==
    fillDiagonalLoop(clearSparseMatrix(M), value, 0,
                     IF M.rows < M.cols THEN M.rows ELSE M.cols)

\* transposeSparseMatrix()
transposeSparseMatrix(M) ==
    [rows |-> M.cols, cols |-> M.rows,
     rowsIndexes |-> M.colsIndexes, colsIndexes |-> M.rowsIndexes, values |-> M.values]

\* SparseMatrix<int> mat(rows, cols);
InitSparse ==
    /\ mat \in { SparseMatrix(r, c) : r \in Dims, c \in Dims }
    /\ other = DefaultMatrix
    /\ ret = NoCall
    /\ written = NothingWritten
    /\ tracked = FALSE
    /\ heap = NoStorage

\* mat.addValue(row, col, value)
AddValue ==
    \E row \in IndexArgs, col \in IndexArgs, value \in SignedVals :
        LET e == addValue(mat, ToSizeT(row), ToSizeT(col), value)
        IN  /\ Len(mat.values) < MaxEntries
            /\ mat' = e.this
            /\ ret' = Call("addValue", <<row, col, value>>, mat, e.out)
            /\ UNCHANGED <<other, written, tracked, heap>>

\* mat.getValue(row, col)
GetValue ==
    \E row \in IndexArgs, col \in IndexArgs :
        /\ ret' = Call("getValue", <<row, col>>, mat,
                       getValue(mat, ToSizeT(row), ToSizeT(col)))
        /\ UNCHANGED <<mat, other, written, tracked, heap>>

\* mat.scaleSparseMatrix(scalar)
ScaleSparse ==
    \E scalar \in SignedVals :
        /\ mat' = scaleSparseMatrix(mat, scalar)
        /\ ret' = Call("scaleSparseMatrix", <<scalar>>, mat, Ok(0))
        /\ UNCHANGED <<other, written, tracked, heap>>

\* mat * scalar
TimesScalarSparse ==
    \E scalar \in SignedVals :
        /\ ret' = Call("operator*(scalar)", <<scalar>>, mat, Ok(OpScaleSparse(mat, scalar)))
        /\ UNCHANGED <<mat, other, written, tracked, heap>>

\* mat *= scalar: *this = *this * scalar
ScaleAssignSparse ==
    \E scalar \in SignedVals :
        /\ mat' = OpScaleSparse(mat, scalar)
        /\ ret' = Call("operator*=(scalar)", <<scalar>>, mat, Ok(0))
        /\ UNCHANGED <<other, written, tracked, heap>>

\* mat.fillDiagonalSparseMatrix(value)
FillDiagonalSparse ==
    \E value \in SignedVals :
        /\ mat' = fillDiagonalSparseMatrix(mat, value)
        /\ ret' = Call("fillDiagonalSparseMatrix", <<value>>, mat, Ok(0))
        /\ UNCHANGED <<other, written, tracked, heap>>

\* mat.clearSparseMatrix()
ClearSparse ==
    /\ mat' = clearSparseMatrix(mat)
    /\ ret' = Call("clearSparseMatrix", <<>>, mat, Ok(0))
    /\ UNCHANGED <<other, written, tracked, heap>>

\* mat.transposeSparseMatrix()
TransposeSparse ==
    /\ ret' = Call("transposeSparseMatrix", <<>>, mat, Ok(transposeSparseMatrix(mat)))
    /\ UNCHANGED <<mat, other, written, tracked, heap>>

NextSparse ==
    \/ AddValue
    \/ GetValue
    \/ ScaleSparse
    \/ TimesScalarSparse
    \/ ScaleAssignSparse
    \/ FillDiagonalSparse
    \/ ClearSparse
    \/ TransposeSparse

SpecSparse == InitSparse /\ [][NextSparse]_vars

\* ---------------------------------------------- sparse matrix, two operands
\* The while loop of operator+ (sign = 1) and operator- (sign = -1) with i
\* entries of L and j entries of R consumed: the entry of L is appended when
\* R is exhausted or L's coordinate is the smaller one in row-major order,
\* the entry of R (negated for operator-) when L is exhausted or R's
\* coordinate is the smaller one, otherwise the coordinates are equal and
\* the sum or difference is added unless it is 0.
RECURSIVE mergeLoop(_, _, _, _, _, _)
mergeLoop(L, R, result, i, j, sign) ==
    LET n == Len(L.values)
        m == Len(R.values)
    IN  IF ~(i < n \/ j < m) THEN result
        ELSE IF i < n /\ (\/ j >= m
                          \/ L.rowsIndexes[i + 1] < R.rowsIndexes[j + 1]
                          \/ (L.rowsIndexes[i + 1] = R.rowsIndexes[j + 1]
                                /\ L.colsIndexes[i + 1] < R.colsIndexes[j + 1]))
        THEN mergeLoop(L, R,
                       addValue(result, L.rowsIndexes[i + 1], L.colsIndexes[i + 1],
                                L.values[i + 1]).this,
                       i + 1, j, sign)
        ELSE IF j < m /\ (\/ i >= n
                          \/ L.rowsIndexes[i + 1] > R.rowsIndexes[j + 1]
                          \/ (L.rowsIndexes[i + 1] = R.rowsIndexes[j + 1]
                                /\ L.colsIndexes[i + 1] > R.colsIndexes[j + 1]))
        THEN mergeLoop(L, R,
                       addValue(result, R.rowsIndexes[j + 1], R.colsIndexes[j + 1],
                                sign * R.values[j + 1]).this,
                       i, j + 1, sign)
        ELSE LET sum == L.values[i + 1] + sign * R.values[j + 1]
             IN  mergeLoop(L, R,
                           IF sum # 0
                           THEN addValue(result, L.rowsIndexes[i + 1],
                                         L.colsIndexes[i + 1], sum).this
                           ELSE result,
                           i + 1, j + 1, sign)

\* operator+
OpAddSparse(L, R) ==
    IF L.rows # R.rows \/ L.cols # R.cols THEN Throw("DimensionMismatch")
    ELSE Ok(mergeLoop(L, R, SparseMatrix(L.rows, L.cols), 0, 0, 1))

\* operator-
OpSubSparse(L, R) ==
    IF L.rows # R.rows \/ L.cols # R.cols THEN Throw("DimensionMismatch")
    ELSE Ok(mergeLoop(L, R, SparseMatrix(L.rows, L.cols), 0, 0, 0 - 1))

\* The two loops of operator*, step k = i * other.values.size() + j: when
\* other's entry j is in the row named by the column of entry i,
\* result.addValue(row, col, result.getValue(row, col) + product).
RECURSIVE productLoop(_, _, _, _)
productLoop(L, R, result, k) ==
    LET m == Len(R.values)
    IN  IF m = 0 \/ k >= Len(L.values) * m THEN result
        ELSE LET i == k \div m
                 j == k % m
                 row == L.rowsIndexes[i + 1]
                 col == R.colsIndexes[j + 1]
                 product == L.values[i + 1] * R.values[j + 1]
             IN  IF R.rowsIndexes[j + 1] = L.colsIndexes[i + 1]
                 THEN productLoop(L, R,
                                  addValue(result, row, col,
                                           getValue(result, row, col).val + product).this,
                                  k + 1)
                 ELSE productLoop(L, R, result, k + 1)

\* operator*(const SparseMatrix&)
OpMulSparse(L, R) ==
    IF L.cols # R.rows THEN Throw("DimensionMismatch")
    ELSE Ok(productLoop(L, R, SparseMatrix(L.rows, R.cols), 0))

\* The entry lists over the cells of an r x c matrix with values in S: at
\* most MaxEntries entries, no cell twice, in every order.
EntryLists(r, c, S) ==
    LET cells == (0 .. (r - 1)) \X (0 .. (c - 1))
        lists == UNION { [1 .. n -> cells \X S] : n \in 0 .. MaxEntries }
    IN  { l \in lists : \A p \in 1 .. Len(l), q \in 1 .. Len(l) :
                            l[p][1] = l[q][1] => p = q }

\* The sparse matrix that addValue calls in the order of list l build.
SparseOf(r, c, l) ==
    [rows |-> r, cols |-> c,
     rowsIndexes |-> [p \in 1 .. Len(l) |-> l[p][1][1]],
     colsIndexes |-> [p \in 1 .. Len(l) |-> l[p][1][2]],
     values |-> [p \in 1 .. Len(l) |-> l[p][2]]]

\* Every sparse matrix with dimensions in D built from non-zero values of S.
SparseMatrices(D, S) ==
    UNION { { SparseOf(r, c, l) : l \in EntryLists(r, c, S \ {0}) } : r \in D, c \in D }

InitSparseBinary ==
    /\ mat \in SparseMatrices(Dims, SignedVals)
    /\ other \in SparseMatrices(Dims, Vals)
    /\ ret = NoCall
    /\ written = NothingWritten
    /\ tracked = FALSE
    /\ heap = NoStorage

\* mat + other
AddSparse ==
    /\ ret' = Call("operator+", <<other>>, mat, OpAddSparse(mat, other))
    /\ UNCHANGED <<mat, other, written, tracked, heap>>

\* mat - other
SubSparse ==
    /\ ret' = Call("operator-", <<other>>, mat, OpSubSparse(mat, other))
    /\ UNCHANGED <<mat, other, written, tracked, heap>>

\* mat * other
MulSparse ==
    /\ ret' = Call("operator*", <<other>>, mat, OpMulSparse(mat, other))
    /\ UNCHANGED <<mat, other, written, tracked, heap>>

NextSparseBinary ==
    \/ AddSparse
    \/ SubSparse
    \/ MulSparse

SpecSparseBinary == InitSparseBinary /\ [][NextSparseBinary]_vars

\* ----------------------------------------------- sparse matrix, one operand
\* The loop of minorSparseMatrix(row, col) from entry i on: entries in the
\* deleted row or column are skipped, the others are added to the minor with
\* indices past the deletion lowered by one; an exception of addValue ends
\* the loop.
RECURSIVE minorLoop(_, _, _, _, _)
minorLoop(M, row, col, minorMatrix, i) ==
    IF i >= Len(M.values) THEN Ok(minorMatrix)
    ELSE IF M.rowsIndexes[i + 1] = row \/ M.colsIndexes[i + 1] = col
    THEN minorLoop(M, row, col, minorMatrix, i + 1)
    ELSE LET newRow == IF M.rowsIndexes[i + 1] < row THEN M.rowsIndexes[i + 1]
                       ELSE M.rowsIndexes[i + 1] - 1
             newCol == IF M.colsIndexes[i + 1] < col THEN M.colsIndexes[i + 1]
                       ELSE M.colsIndexes[i + 1] - 1
             e == addValue(minorMatrix, newRow, newCol, M.values[i + 1])
         IN  IF e.out.err # "none" THEN e.out
             ELSE minorLoop(M, row, col, e.this, i + 1)

\* The same loop with the column index never lowered.
RECURSIVE minorLoopNoShift(_, _, _, _, _)
minorLoopNoShift(M, row, col, minorMatrix, i) ==
    IF i >= Len(M.values) THEN Ok(minorMatrix)
    ELSE IF M.rowsIndexes[i + 1] = row \/ M.colsIndexes[i + 1] = col
    THEN minorLoopNoShift(M, row, col, minorMatrix, i + 1)
    ELSE LET newRow == IF M.rowsIndexes[i + 1] < row THEN M.rowsIndexes[i + 1]
                       ELSE M.rowsIndexes[i + 1] - 1
             newCol == M.colsIndexes[i + 1]
             e == addValue(minorMatrix, newRow, newCol, M.values[i + 1])
         IN  IF e.out.err # "none" THEN e.out
             ELSE minorLoopNoShift(M, row, col, e.this, i + 1)

minorSparseMatrixNoShift(M, row, col) ==
    minorLoopNoShift(M, row, col,
                     SparseMatrix(ToSizeT(M.rows - 1), ToSizeT(M.cols - 1)), 0)

\* minorSparseMatrix(row, col)
minorSparseMatrix(M, row, col) ==
    minorLoop(M, row, col, SparseMatrix(ToSizeT(M.rows - 1), ToSizeT(M.cols - 1)), 0)

\* determinantSparseMatrix(); detSparseLoop is its for loop with i columns
\* still to expand and det the sum so far.
RECURSIVE determinantSparseMatrix(_)
RECURSIVE detSparseLoop(_, _, _)
detSparseLoop(M, i, det) ==
    IF i >= M.cols THEN Ok(det)
    ELSE LET minor == minorSparseMatrix(M, 0, i)
             minorDet == IF minor.err # "none" THEN minor
                         ELSE determinantSparseMatrix(minor.val)
         IN  IF minorDet.err # "none" THEN minorDet
             ELSE detSparseLoop(M, i + 1,
                                det + (IF i % 2 = 0 THEN 1 ELSE 0 - 1)
                                        * getValue(M, 0, i).val * minorDet.val)

determinantSparseMatrix(M) ==
    IF M.rows # M.cols THEN Throw("NotSquare")
    ELSE IF M.rows = 1 THEN getValue(M, 0, 0)
    ELSE IF M.rows = 2
    THEN Ok(getValue(M, 0, 0).val * getValue(M, 1, 1).val
              - getValue(M, 0, 1).val * getValue(M, 1, 0).val)
    ELSE detSparseLoop(M, 0, 0)

\* isIdentitySparseMatrix(): FALSE for a non-square matrix, otherwise every
\* stored entry on the diagonal is 1 and every stored entry off it is 0.
isIdentitySparseMatrix(M) ==
    IF M.rows # M.cols THEN FALSE
    ELSE \A i \in 1 .. Len(M.values) :
            IF M.rowsIndexes[i] = M.colsIndexes[i] THEN M.values[i] = 1
            ELSE M.values[i] = 0

\* addValue(row, col, M(row, col)) for the cells k, k + 1, .. of the dense
\* matrix M in row-major order, zeros included.
RECURSIVE addAll(_, _, _)
addAll(S, M, k) ==
    IF k >= M.rows * M.cols THEN S
    ELSE addAll(addValue(S, k \div M.cols, k % M.cols,
                         M.data[k \div M.cols][k % M.cols]).this, M, k + 1)

\* The sparse matrices built cell by cell from the dense matrices over S with
\* dimensions in D.
SparseFromDense(D, S) ==
    UNION { { addAll(SparseMatrix(r, c), M, 0) : M \in MatricesOf(r, c, S) } :
              r \in D, c \in D }

InitSparseUnary ==
    /\ mat \in SparseMatrices(0 .. DetDim, SignedVals) \cup SparseFromDense(1 .. DetDim, Vals)
    /\ other = DefaultMatrix
    /\ ret = NoCall
    /\ written = NothingWritten
    /\ tracked = FALSE
    /\ heap = NoStorage

\* mat.determinantSparseMatrix()
DeterminantSparse ==
    /\ ret' = Call("determinantSparseMatrix", <<>>, mat, determinantSparseMatrix(mat))
    /\ UNCHANGED <<mat, other, written, tracked, heap>>

\* mat.minorSparseMatrix(row, col) for a row and a column of mat
MinorSparse ==
    \E row \in 0 .. (mat.rows - 1), col \in 0 .. (mat.cols - 1) :
        /\ ret' = Call("minorSparseMatrix", <<row, col>>, mat,
                       minorSparseMatrix(mat, row, col))
        /\ UNCHANGED <<mat, other, written, tracked, heap>>

\* mat.isIdentitySparseMatrix()
IsIdentitySparse ==
    /\ ret' = Call("isIdentitySparseMatrix", <<>>, mat, Ok(isIdentitySparseMatrix(mat)))
    /\ UNCHANGED <<mat, other, written, tracked, heap>>

\* mat.fillDiagonalSparseMatrix(1) followed by mat.isIdentitySparseMatrix()
FillThenIsIdentitySparse ==
    LET e == fillDiagonalSparseMatrix(mat, 1)
    IN  /\ ret.op = "none"
        /\ mat' = e
        /\ ret' = Call("fillDiagonalSparseMatrix;isIdentitySparseMatrix", <<1>>, mat,
                       Ok(isIdentitySparseMatrix(e)))
        /\ UNCHANGED <<other, written, tracked, heap>>

NextSparseUnary ==
    \/ DeterminantSparse
    \/ MinorSparse
    \/ IsIdentitySparse
    \/ FillThenIsIdentitySparse

SpecSparseUnary == InitSparseUnary /\ [][NextSparseUnary]_vars

\* --------------------------------------------------------------- block matrix
\* A BlockMatrix is a record of rows_, cols_, blockRows_, blockCols_ and the
\* grid data_ of tiles, each tile a dense matrix.  A tile access outside the
\* grid is undefined: the process dies, or the call goes on with a read
\* yielding some tile and a write lost.
MIN_COUNT_BLOCK == 2
MaxBlockSize == 5
MaxBlockShape == 3
MaxExp == 3
BlockSizes == 0 .. MaxBlockSize
BlockShapes == MIN_COUNT_BLOCK .. MaxBlockShape

\* (n + b - 1) / b
numBlocks(n, b) == (n + b - 1) \div b
numBlocksRow(B) == numBlocks(B.rows, B.blockRows)
numBlocksCol(B) == numBlocks(B.cols, B.blockCols)

\* initMemory()
initMemory(r, c, br, bc) ==
    [i \in 0 .. (numBlocks(r, br) - 1) |->
        [j \in 0 .. (numBlocks(c, bc) - 1) |-> Matrix(br, bc)]]

\* BlockMatrix(rows, cols, blockRows, blockCols)
BlockMatrixOfShape(r, c, br, bc) ==
    [rows |-> r, cols |-> c, blockRows |-> br, blockCols |-> bc,
     data |-> initMemory(r, c, br, bc)]

\* BlockMatrix(rows, cols)
BlockMatrix(r, c) == BlockMatrixOfShape(r, c, MIN_COUNT_BLOCK, MIN_COUNT_BLOCK)

\* BlockMatrix(): MIN_SIZE_MATRIX x MIN_SIZE_MATRIX
DefaultBlockMatrix == BlockMatrix(MIN_SIZE_MATRIX, MIN_SIZE_MATRIX)

\* BlockMatrix(rows, cols, matrix): initMemory(), then every tile is
\* assigned matrix.
BlockMatrixFrom(r, c, matrix) ==
    [rows |-> r, cols |-> c,
     blockRows |-> MIN_COUNT_BLOCK, blockCols |-> MIN_COUNT_BLOCK,
     data |-> [i \in 0 .. (numBlocks(r, MIN_COUNT_BLOCK) - 1) |->
                [j \in 0 .. (numBlocks(c, MIN_COUNT_BLOCK) - 1) |-> copyMatrix(matrix)]]]

\* copy(other), the copy constructor and operator=(const BlockMatrix&)
copyBlock(Other) ==
    [rows |-> Other.rows, cols |-> Other.cols,
     blockRows |-> Other.blockRows, blockCols |-> Other.blockCols,
     data |-> [i \in 0 .. (numBlocksRow(Other) - 1) |->
                [j \in 0 .. (numBlocksCol(Other) - 1) |-> copyMatrix(Other.data[i][j])]]]

\* data_[i][j] is a tile of B's grid.
InGrid(B, i, j) == i < numBlocksRow(B) /\ j < numBlocksCol(B)

\* What a read of data_[i][j] outside the grid may yield.
GarbageTiles(B) == { Matrix(0, 0), Matrix(B.blockRows, B.blockCols) }

\* A read of data_[i][j], g being read outside the grid.
TileAt(B, i, j, g) == IF InGrid(B, i, j) THEN B.data[i][j] ELSE g

\* data_[i][j] = tile; lost outside the grid.
TilePut(B, i, j, tile) ==
    IF InGrid(B, i, j) THEN [B EXCEPT !.data[i][j] = tile] ELSE B

\* The outcomes of a call that ended with outcome out, having left its
\* grids (ub) or not.
Outcomes(out, ub) == IF ub THEN {Throw("Crash"), out} ELSE {out}

\* getBlockCount(): the quotient of the whole product by blockCols_.
getBlockCount(B) ==
    (((B.rows + B.blockRows - 1) \div B.blockRows) * (B.cols + B.blockCols - 1))
        \div B.blockCols

\* getBlock(blockRow, blockCol)
getBlock(B, blockRow, blockCol) ==
    IF \/ blockRow >= numBlocksRow(B)
       \/ blockCol >= numBlocksCol(B)
       \/ blockRow < MIN_COUNT_BLOCK
       \/ blockCol < MIN_COUNT_BLOCK
    THEN Throw("OutOfRange")
    ELSE Ok(B.data[blockRow][blockCol])

\* operator()(blockRow, blockCol): a copy of getBlock's tile
OpCallBlock(B, blockRow, blockCol) ==
    LET block == getBlock(B, blockRow, blockCol)
    IN  IF block.err # "none" THEN block ELSE Ok(copyMatrix(block.val))

\* The loops of operator+ (sign = 1) and operator- (sign = -1) at step
\* s = i * numBlocksCol + j: result.data_[i][j] = data_[i][j] +- other.data_[i][j],
\* both indices running over the receiver's grid.  The exception of a tile
\* sum ends the call.  ub: a tile outside other's grid has been read.
RECURSIVE sumBlockLoop(_, _, _, _, _, _, _)
sumBlockLoop(L, R, result, s, sign, g, ub) ==
    IF s >= numBlocksRow(L) * numBlocksCol(L) THEN [out |-> Ok(result), ub |-> ub]
    ELSE LET i == s \div numBlocksCol(L)
             j == s % numBlocksCol(L)
             tile == IF sign = 1 THEN OpAdd(L.data[i][j], TileAt(R, i, j, g))
                     ELSE OpSub(L.data[i][j], TileAt(R, i, j, g))
             nowUb == ub \/ ~InGrid(R, i, j)
         IN  IF tile.err # "none" THEN [out |-> tile, ub |-> nowUb]
             ELSE sumBlockLoop(L, R, TilePut(result, i, j, tile.val), s + 1, sign, g, nowUb)

\* operator+.  The source's body has a stray "template<typename MatrixType>"
\* in place of the two grid counts; the loops are those of operator-.
OpAddBlock(L, R) ==
    IF L.rows # R.rows \/ L.cols # R.cols THEN {Throw("DimensionMismatch")}
    ELSE UNION { Outcomes(r.out, r.ub) :
                   r \in { sumBlockLoop(L, R,
                                        BlockMatrixOfShape(L.rows, L.cols,
                                                           L.blockRows, L.blockCols),
                                        0, 1, g, FALSE) : g \in GarbageTiles(R) } }

\* operator-
OpSubBlock(L, R) ==
    IF L.rows # R.rows \/ L.cols # R.cols THEN {Throw("DimensionMismatch")}
    ELSE UNION { Outcomes(r.out, r.ub) :
                   r \in { sumBlockLoop(L, R,
                                        BlockMatrixOfShape(L.rows, L.cols,
                                                           L.blockRows, L.blockCols),
                                        0, 0 - 1, g, FALSE) : g \in GarbageTiles(R) } }

\* The loops of operator*(const BlockMatrix&) at step
\* s = (i * numBlocksColB + j) * numBlocksColA + k:
\* result.data_[i][j] += data_[i][k] * other.data_[k][j].
RECURSIVE mulBlockLoop(_, _, _, _, _, _)
mulBlockLoop(L, R, result, s, g, ub) ==
    LET numBlocksRowA == numBlocksRow(L)
        numBlocksColA == numBlocksCol(L)
        numBlocksColB == numBlocksCol(R)
    IN  IF s >= numBlocksRowA * numBlocksColB * numBlocksColA
        THEN [out |-> Ok(result), ub |-> ub]
        ELSE LET k == s % numBlocksColA
                 j == (s \div numBlocksColA) % numBlocksColB
                 i == (s \div numBlocksColA) \div numBlocksColB
                 nowUb == ub \/ ~InGrid(R, k, j)
                 prod == OpMul(L.data[i][k], TileAt(R, k, j, g))
                 sum == IF prod.err # "none" THEN Effect(result.data[i][j], prod)
                        ELSE OpAddAssign(result.data[i][j], prod.val)
             IN  IF sum.out.err # "none" THEN [out |-> sum.out, ub |-> nowUb]
                 ELSE mulBlockLoop(L, R, TilePut(result, i, j, sum.this), s + 1, g, nowUb)

\* operator*(const BlockMatrix&)
OpMulBlock(L, R) ==
    IF L.cols # R.rows THEN {Throw("DimensionMismatch")}
    ELSE UNION { Outcomes(r.out, r.ub) :
                   r \in { mulBlockLoop(L, R,
                                        BlockMatrixOfShape(L.rows, R.cols,
                                                           L.blockRows, R.blockCols),
                                        0, g, FALSE) : g \in GarbageTiles(R) } }

\* operator*(const MatrixType& scalar): every tile scaled.  The source
\* writes scalar * data_[i][j]; the dense class has operator*(scalar) only.
OpScaleBlock(B, scalar) ==
    [B EXCEPT !.data = [i \in 0 .. (numBlocksRow(B) - 1) |->
                         [j \in 0 .. (numBlocksCol(B) - 1) |->
                            OpScale(B.data[i][j], scalar)]]]

\* pow(0): the loop over i < getBlockRows() from i on,
\* result.getBlock(i, i) = makeIdentityMatrix(getBlockRows()).
RECURSIVE powIdentityLoop(_, _)
powIdentityLoop(result, i) ==
    IF i >= result.blockRows THEN Ok(result)
    ELSE LET identity == makeIdentityMatrix(result.blockRows)
             block == getBlock(result, i, i)
         IN  IF identity.err # "none" THEN identity
             ELSE IF block.err # "none" THEN block
             ELSE powIdentityLoop([result EXCEPT !.data[i][i] = identity.val], i + 1)

\* pow(exp > 0): the loop "result = result * base" from i on.
RECURSIVE powLoop(_, _, _, _)
powLoop(result, base, i, exp) ==
    IF i >= exp THEN {Ok(result)}
    ELSE UNION { IF o.err # "none" THEN {o} ELSE powLoop(o.val, base, i + 1, exp) :
                   o \in OpMulBlock(result, base) }

\* pow(exp)
powBlock(B, exp) ==
    IF B.rows # B.cols THEN {Throw("NotSquare")}
    ELSE IF exp = 0
    THEN {powIdentityLoop(BlockMatrixOfShape(B.rows, B.cols, B.blockRows, B.blockCols), 0)}
    ELSE powLoop(copyBlock(B), copyBlock(B), 1, exp)

\* The pairs (i, j) of the loops "i < rows_, i < j < cols_".
UpperPairs(B) ==
    { p \in (0 .. (B.rows - 1)) \X (0 .. (B.cols - 1)) : p[1] < p[2] }

\* Row-major order of index pairs.
PairBefore(p, q) == p[1] < q[1] \/ (p[1] = q[1] /\ p[2] < q[2])

\* isSymmetric(): false for rows_ # cols_; otherwise data_[i][j] and
\* data_[j][i] are compared for i < rows_, i < j < cols_ in row order, false
\* at the first pair that differs.  The set of outcomes.
isSymmetric(B) ==
    LET outside == { p \in UpperPairs(B) : ~InGrid(B, p[1], p[2]) \/ ~InGrid(B, p[2], p[1]) }
        differ == { p \in UpperPairs(B) \ outside :
                      ~OpEq(B.data[p[1]][p[2]], B.data[p[2]][p[1]]) }
    IN  IF B.rows # B.cols THEN {Ok(FALSE)}
        ELSE IF outside = {} THEN {Ok(differ = {})}
        ELSE IF \E p \in differ : \A q \in outside : PairBefore(p, q) THEN {Ok(FALSE)}
        ELSE {Throw("Crash"), Ok(FALSE), Ok(TRUE)}

\* transposeBlockMatrix(): std::swap(data_[i][j], data_[j][i]) for i < rows_,
\* i < j < cols_.  The set of effects.
transposeBlockMatrix(B) ==
    LET outside == { p \in UpperPairs(B) : ~InGrid(B, p[1], p[2]) \/ ~InGrid(B, p[2], p[1]) }
        swapped == [B EXCEPT !.data =
                      [i \in 0 .. (numBlocksRow(B) - 1) |->
                         [j \in 0 .. (numBlocksCol(B) - 1) |->
                            IF i < B.rows /\ j < B.cols /\ InGrid(B, j, i)
                            THEN B.data[j][i] ELSE B.data[i][j]]]]
    IN  IF B.rows # B.cols THEN {Effect(B, Throw("NotSquare"))}
        ELSE IF outside = {} THEN {Effect(swapped, Ok(0))}
        ELSE {Effect(B, Throw("Crash")), Effect(swapped, Ok(0))}

\* concat(other, horizontal): the tiles are copied with the logical sizes as
\* loop bounds, result.data_[i][j] = data_[i][j] and
\* result.data_[i][j + cols_] = other.data_[i][j] (horizontal) or
\* result.data_[i + rows_][j] = other.data_[i][j] for j < cols_ (vertical).
concat(L, R, horizontal) ==
    LET result == IF horizontal
                  THEN BlockMatrixOfShape(L.rows, L.cols + R.cols, L.blockRows, L.blockCols)
                  ELSE BlockMatrixOfShape(L.rows + R.rows, L.cols, L.blockRows, L.blockCols)
        own == (0 .. (L.rows - 1)) \X (0 .. (L.cols - 1))
        others == IF horizontal THEN (0 .. (L.rows - 1)) \X (0 .. (R.cols - 1))
                  ELSE (0 .. (R.rows - 1)) \X (0 .. (L.cols - 1))
        Target(p) == IF horizontal THEN <<p[1], p[2] + L.cols>> ELSE <<p[1] + L.rows, p[2]>>
        ub == \/ \E p \in own : ~InGrid(L, p[1], p[2]) \/ ~InGrid(result, p[1], p[2])
              \/ \E p \in others : \/ ~InGrid(R, p[1], p[2])
                                    \/ ~InGrid(result, Target(p)[1], Target(p)[2])
        Filled(g) ==
            [result EXCEPT !.data =
               [i \in 0 .. (numBlocksRow(result) - 1) |->
                  [j \in 0 .. (numBlocksCol(result) - 1) |->
                     IF \E p \in others : Target(p) = <<i, j>>
                     THEN LET p == CHOOSE q \in others : Target(q) = <<i, j>>
                          IN  copyMatrix(TileAt(R, p[1], p[2], g))
                     ELSE IF <<i, j>> \in own THEN copyMatrix(TileAt(L, i, j, g))
                     ELSE result.data[i][j]]]]
    IN  IF horizontal /\ L.rows # R.rows THEN {Throw("DimensionMismatch")}
        ELSE IF ~horizontal /\ L.cols # R.cols THEN {Throw("DimensionMismatch")}
        ELSE UNION { Outcomes(Ok(Filled(g)), ub) : g \in GarbageTiles(L) }

\* frobeniusNorm(): data_[i][j] is read for every i and j below
\* getBlockCount().  The norm of a tile is not part of these sources: the
\* value is the number of tiles read.
frobeniusNorm(B) ==
    LET read == (0 .. (getBlockCount(B) - 1)) \X (0 .. (getBlockCount(B) - 1))
    IN  Outcomes(Ok(Cardinality(read)), \E p \in read : ~InGrid(B, p[1], p[2]))

\* findMaxElementBlockMatrixBlock() and findMinElementBlockMatrixBlock():
\* data_[0][0] is read, then data_[i][j] for i < rows_, j < cols_.  The
\* extremum of a tile is not part of these sources: the value is the number
\* of tiles read.
findElementBlockMatrixBlock(B) ==
    LET read == {<<0, 0>>} \cup ((0 .. (B.rows - 1)) \X (0 .. (B.cols - 1)))
    IN  Outcomes(Ok(Cardinality(read)), \E p \in read : ~InGrid(B, p[1], p[2]))

\* The block matrices the three sized constructors build, for sizes in Sz,
\* block shapes in Sh and a matrix argument in Tiles.
BlockOperands(Sz, Sh, Tiles) ==
    UNION { { BlockMatrix(r, c) }
              \cup { BlockMatrixOfShape(r, c, br, bc) : br \in Sh, bc \in Sh }
              \cup { BlockMatrixFrom(r, c, matrix) : matrix \in Tiles } :
            r \in Sz, c \in Sz }

\* The dense matrices passed to BlockMatrix(rows, cols, matrix).
TileArgs(S) == UNION { MatricesOf(r, c, S) : r \in 1 .. MaxDim, c \in 1 .. MaxDim }

InitBlock ==
    /\ mat \in BlockOperands(BlockSizes, BlockShapes, TileArgs(Vals))
    /\ other = DefaultMatrix
    /\ ret = NoCall
    /\ written = NothingWritten
    /\ tracked = FALSE
    /\ heap = NoStorage

\* mat.getBlockCount()
GetBlockCount ==
    /\ ret' = Call("getBlockCount", <<>>, mat, Ok(getBlockCount(mat)))
    /\ UNCHANGED <<mat, other, written, tracked, heap>>

\* mat.getBlock(blockRow, blockCol)
GetBlock ==
    \E blockRow \in 0 .. MaxBlockShape, blockCol \in 0 .. MaxBlockShape :
        /\ ret' = Call("getBlock", <<blockRow, blockCol>>, mat,
                       getBlock(mat, blockRow, blockCol))
        /\ UNCHANGED <<mat, other, written, tracked, heap>>

\* mat(blockRow, blockCol)
CallBlock ==
    \E blockRow \in 0 .. MaxBlockShape, blockCol \in 0 .. MaxBlockShape :
        /\ ret' = Call("operator()", <<blockRow, blockCol>>, mat,
                       OpCallBlock(mat, blockRow, blockCol))
        /\ UNCHANGED <<mat, other, written, tracked, heap>>

\* mat.pow(exp)
Pow ==
    \E exp \in 0 .. MaxExp : \E out \in powBlock(mat, exp) :
        /\ ret' = Call("pow", <<exp>>, mat, out)
        /\ UNCHANGED <<mat, other, written, tracked, heap>>

\* mat.isSymmetric()
IsSymmetricBlock ==
    \E out \in isSymmetric(mat) :
        /\ ret' = Call("isSymmetric", <<>>, mat, out)
        /\ UNCHANGED <<mat, other, written, tracked, heap>>

\* mat.transposeBlockMatrix()
TransposeBlock ==
    \E e \in transposeBlockMatrix(mat) :
        /\ mat' = e.this
        /\ ret' = Call("transposeBlockMatrix", <<>>, mat, e.out)
        /\ UNCHANGED <<other, written, tracked, heap>>

\* mat.frobeniusNorm()
FrobeniusNormBlock ==
    \E out \in frobeniusNorm(mat) :
        /\ ret' = Call("frobeniusNorm", <<>>, mat, out)
        /\ UNCHANGED <<mat, other, written, tracked, heap>>

\* mat.findMaxElementBlockMatrixBlock()
FindMaxBlock ==
    \E out \in findElementBlockMatrixBlock(mat) :
        /\ ret' = Call("findMaxElementBlockMatrixBlock", <<>>, mat, out)
        /\ UNCHANGED <<mat, other, written, tracked, heap>>

\* mat.findMinElementBlockMatrixBlock()
FindMinBlock ==
    \E out \in findElementBlockMatrixBlock(mat) :
        /\ ret' = Call("findMinElementBlockMatrixBlock", <<>>, mat, out)
        /\ UNCHANGED <<mat, other, written, tracked, heap>>

NextBlock ==
    \/ GetBlockCount
    \/ GetBlock
    \/ CallBlock
    \/ Pow
    \/ IsSymmetricBlock
    \/ TransposeBlock
    \/ FrobeniusNormBlock
    \/ FindMaxBlock
    \/ FindMinBlock

SpecBlock == InitBlock /\ [][NextBlock]_vars

\* Two block matrices.
MaxPairSize == 3

InitBlockBinary ==
    /\ mat \in BlockOperands(0 .. MaxPairSize, BlockShapes, TileArgs(Vals))
    /\ other \in BlockOperands(0 .. MaxPairSize, BlockShapes,
                               MatricesOf(MIN_COUNT_BLOCK, MIN_COUNT_BLOCK, {1}))
    /\ ret = NoCall
    /\ written = NothingWritten
    /\ tracked = FALSE
    /\ heap = NoStorage

\* mat + other
AddBlock ==
    \E out \in OpAddBlock(mat, other) :
        /\ ret' = Call("operator+", <<other>>, mat, out)
        /\ UNCHANGED <<mat, other, written, tracked, heap>>

\* mat - other
SubBlock ==
    \E out \in OpSubBlock(mat, other) :
        /\ ret' = Call("operator-", <<other>>, mat, out)
        /\ UNCHANGED <<mat, other, written, tracked, heap>>

\* mat * other
MulBlock ==
    \E out \in OpMulBlock(mat, other) :
        /\ ret' = Call("operator*", <<other>>, mat, out)
        /\ UNCHANGED <<mat, other, written, tracked, heap>>

\* mat * scalar
TimesScalarBlock ==
    \E scalar \in SignedVals :
        /\ ret' = Call("operator*(scalar)", <<scalar>>, mat, Ok(OpScaleBlock(mat, scalar)))
        /\ UNCHANGED <<mat, other, written, tracked, heap>>

\* mat.concat(other, horizontal)
ConcatBlock ==
    \E horizontal \in BOOLEAN : \E out \in concat(mat, other, horizontal) :
        /\ ret' = Call("concat", <<other, horizontal>>, mat, out)
        /\ UNCHANGED <<mat, other, written, tracked, heap>>

\* BlockMatrix copy(mat)
CopyConstructBlock ==
    /\ ret' = Call("BlockMatrix(const BlockMatrix&)", <<>>, mat, Ok(copyBlock(mat)))
    /\ UNCHANGED <<mat, other, written, tracked, heap>>

\* mat = other
CopyAssignBlock ==
    /\ mat' = copyBlock(other)
    /\ ret' = Call("operator=", <<other>>, mat, Ok(copyBlock(other)))
    /\ UNCHANGED <<other, written, tracked, heap>>

NextBlockBinary ==
    \/ AddBlock
    \/ SubBlock
    \/ MulBlock
    \/ TimesScalarBlock
    \/ ConcatBlock
    \/ CopyConstructBlock
    \/ CopyAssignBlock

SpecBlockBinary == InitBlockBinary /\ [][NextBlockBinary]_vars

\* ------------------------------------------------------ reference definitions
\* The mathematical objects the properties below compare the code with.
Sign(k) == IF k % 2 = 0 THEN 1 ELSE 0 - 1

\* Sum of f[0] .. f[n - 1].
RECURSIVE RefSum(_, _)
RefSum(f, n) == IF n <= 0 THEN 0 ELSE f[n - 1] + RefSum(f, n - 1)

\* M with row r and column c deleted.
RefMinor(M, r, c) ==
    [rows |-> M.rows - 1, cols |-> M.cols - 1,
     data |-> [i \in 0 .. (M.rows - 2) |->
                [j \in 0 .. (M.cols - 2) |->
                    M.data[IF i < r THEN i ELSE i + 1][IF j < c THEN j ELSE j + 1]]]]

\* The determinant by Laplace expansion along the first row.
RECURSIVE RefDet(_)
RefDet(M) ==
    IF M.rows = 1 THEN M.data[0][0]
    ELSE IF M.rows = 2
         THEN M.data[0][0] * M.data[1][1] - M.data[0][1] * M.data[1][0]
    ELSE RefSum([i \in 0 .. (M.cols - 1) |->
                    Sign(i) * M.data[0][i] * RefDet(RefMinor(M, 0, i))], M.cols)

IsIdentityOf(M, n) ==
    /\ M.rows = n
    /\ M.cols = n
    /\ \A i \in 0 .. (n - 1), j \in 0 .. (n - 1) :
          M.data[i][j] = IF i = j THEN 1 ELSE 0

\* The transpose of M.
RefTranspose(M) ==
    [rows |-> M.cols, cols |-> M.rows,
     data |-> [j \in 0 .. (M.cols - 1) |-> [i \in 0 .. (M.rows - 1) |-> M.data[i][j]]]]

\* The product of A and B, A.cols = B.rows.
RefProduct(A, B) ==
    [rows |-> A.rows, cols |-> B.cols,
     data |-> [i \in 0 .. (A.rows - 1) |->
                [j \in 0 .. (B.cols - 1) |->
                   RefSum([k \in 0 .. (A.cols - 1) |-> A.data[i][k] * B.data[k][j]],
                          A.cols)]]]

\* M is square and commutes with its transpose.
RefNormal(M) ==
    /\ M.rows = M.cols
    /\ RefProduct(M, RefTranspose(M)) = RefProduct(RefTranspose(M), M)

\* M is square and its product with its transpose, in one order or the other,
\* is the identity.
RefOrthogonal(M) ==
    /\ M.rows = M.cols
    /\ \/ IsIdentityOf(RefProduct(M, RefTranspose(M)), M.rows)
       \/ IsIdentityOf(RefProduct(RefTranspose(M), M), M.rows)

\* ------------------------------------------------------------------ properties
\* C1: determinant() of a square n x n matrix, n = 1..4, is its mathematical
\* determinant: the element for 1x1, ad - bc for 2x2, the first-row Laplace
\* expansion for n >= 3.
C1_Determinant ==
    (ret.op = "determinant" /\ isSquareMatrix(ret.pre) /\ ret.pre.rows \in 1 .. 4)
        => (ret.err = "none" /\ ret.val = RefDet(ret.pre))

\* C2: cofactorMatrix() of a square n x n matrix, n = 2..3, is the n x n
\* matrix whose entry (i, j) is sign(i + j) times the determinant of the
\* minor with row i and column j deleted.
C2_CofactorMatrix ==
    (ret.op = "cofactorMatrix" /\ isSquareMatrix(ret.pre) /\ ret.pre.rows \in 2 .. 3)
        => /\ ret.err = "none"
           /\ ret.val.rows = ret.pre.rows
           /\ ret.val.cols = ret.pre.cols
           /\ \A i \in 0 .. (ret.pre.rows - 1), j \in 0 .. (ret.pre.cols - 1) :
                 ret.val.data[i][j] = Sign(i + j) * RefDet(RefMinor(ret.pre, i, j))

\* C3: for a square integer matrix A with determinant +1 or -1 (so that the
\* inverse is representable), A x A.inverseMatrix() is the identity.
C3_InverseProduct ==
    (ret.op = "inverseMatrix" /\ isSquareMatrix(ret.pre) /\ ret.pre.rows \in 2 .. 3
        /\ RefDet(ret.pre) \in {1, 0 - 1})
        => /\ ret.err = "none"
           /\ OpMul(ret.pre, ret.val).err = "none"
           /\ IsIdentityOf(OpMul(ret.pre, ret.val).val, ret.pre.rows)

\* C4: R.inverseMatrix(other), for an invertible other, is other.inverseMatrix()
\* whatever the receiver R holds.
C4_InverseOfOther ==
    (ret.op = "inverseMatrix(other)" /\ isSquareMatrix(ret.args[1])
        /\ ret.args[1].rows >= 1 /\ RefDet(ret.args[1]) # 0)
        => /\ ret.err = inverseMatrix(ret.args[1]).err
           /\ ret.val = inverseMatrix(ret.args[1]).val

\* C5: inverseMatrix() raises NotSquare for a non-square matrix, Singular for
\* a square matrix of determinant 0, and nothing for a 2x2 or 3x3 matrix of
\* non-zero determinant.
C5_InverseErrors ==
    ret.op = "inverseMatrix"
        => /\ ~isSquareMatrix(ret.pre) => ret.err = "NotSquare"
           /\ (isSquareMatrix(ret.pre) /\ RefDet(ret.pre) = 0) => ret.err = "Singular"
           /\ (isSquareMatrix(ret.pre) /\ ret.pre.rows \in 2 .. 3
                 /\ RefDet(ret.pre) # 0) => ret.err = "none"

\* C6: for lhs of shape r x k and rhs of shape k x c, lhs * rhs is the r x c
\* matrix whose entry (i, j) is the sum over t < k of lhs[i][t] * rhs[t][j],
\* and both operands are as they were.
C6_Multiply ==
    (ret.op = "operator*" /\ ret.pre.cols = ret.args[1].rows)
        => LET lhs == ret.pre
               rhs == ret.args[1]
           IN  /\ ret.err = "none"
               /\ ret.val.rows = lhs.rows
               /\ ret.val.cols = rhs.cols
               /\ \A i \in 0 .. (lhs.rows - 1), j \in 0 .. (rhs.cols - 1) :
                     ret.val.data[i][j] =
                        RefSum([t \in 0 .. (lhs.cols - 1) |->
                                   lhs.data[i][t] * rhs.data[t][j]], lhs.cols)
               /\ mat = lhs
               /\ other = rhs

\* C6 witness: a product of a 2-column lhs in which two non-zero terms were
\* accumulated into one entry.
C6_Witness ==
    /\ ret.op = "operator*"
    /\ ret.err = "none"
    /\ ret.pre.cols = 2
    /\ ret.pre.rows = 1
    /\ ret.args[1].cols = 2
    /\ ret.val.data[0][1] = 2

\* C7: operator+ and operator- raise DimensionMismatch exactly when the
\* operands differ in rows or in cols, operator* exactly when lhs.cols differs
\* from rhs.rows; otherwise they return a result.
C7_DimensionErrors ==
    LET lhs == ret.pre
        rhs == ret.args[1]
    IN  /\ ret.op \in {"operator+", "operator-"}
            => /\ (lhs.rows # rhs.rows \/ lhs.cols # rhs.cols)
                    => ret.err = "DimensionMismatch"
               /\ (lhs.rows = rhs.rows /\ lhs.cols = rhs.cols)
                    => (ret.err = "none" /\ ret.val.rows = lhs.rows
                           /\ ret.val.cols = lhs.cols)
        /\ ret.op = "operator*"
            => /\ lhs.cols # rhs.rows => ret.err = "DimensionMismatch"
               /\ lhs.cols = rhs.rows
                    => (ret.err = "none" /\ ret.val.rows = lhs.rows
                           /\ ret.val.cols = rhs.cols)

\* C7 witness: a sum rejected although the operands have the same number of
\* rows.
C7_Witness ==
    /\ ret.op = "operator+"
    /\ ret.err = "DimensionMismatch"
    /\ ret.pre.rows = ret.args[1].rows
    /\ ret.pre.rows = 2

\* C8: operator()(row, col) raises OutOfRange exactly when row >= rows or
\* col >= cols, a negative argument counting as out of range; otherwise a
\* read returns the last value written to (row, col), 0 if none was, and a
\* write changes that element only and neither dimension.
C8_ElementAccess ==
    ret.op \in {"read", "write"}
        => LET row == ret.args[1]
               col == ret.args[2]
               inRange == /\ 0 <= row /\ row < ret.pre.rows
                          /\ 0 <= col /\ col < ret.pre.cols
           IN  /\ ~inRange => (ret.err = "OutOfRange" /\ mat = ret.pre)
               /\ inRange => ret.err = "none"
               /\ (inRange /\ ret.op = "read")
                    => /\ mat = ret.pre
                       /\ tracked => ret.val = written[<<row, col>>]
               /\ (inRange /\ ret.op = "write")
                    => /\ mat.rows = ret.pre.rows
                       /\ mat.cols = ret.pre.cols
                       /\ \A i \in 0 .. (mat.rows - 1), j \in 0 .. (mat.cols - 1) :
                             mat.data[i][j] = IF i = row /\ j = col THEN ret.args[3]
                                              ELSE ret.pre.data[i][j]

\* C8 witness: a read of an off-diagonal cell returns the non-zero value an
\* earlier write left there, another written cell beside it.
C8_Witness ==
    /\ ret.op = "read"
    /\ ret.err = "none"
    /\ tracked
    /\ ret.args = <<1, 0>>
    /\ ret.val = 1
    /\ written[<<0, 0>>] = 1
    /\ written[<<0, 1>>] = 0

\* C9: makeIdentityMatrix(n) fails with InvalidSize when n < 2 and otherwise
\* returns the n x n identity; makeZeroMatrix(r, c) fails with InvalidSize
\* when r < 2 or c < 2 and otherwise returns the r x c zero matrix; the
\* receiver is as it was.
C9_Factories ==
    /\ ret.op = "makeIdentityMatrix"
        => LET n == ret.args[1]
           IN  /\ mat = ret.pre
               /\ n < 2 => ret.err = "InvalidSize"
               /\ n >= 2 => (ret.err = "none" /\ IsIdentityOf(ret.val, n))
    /\ ret.op = "makeZeroMatrix"
        => LET r == ret.args[1]
               c == ret.args[2]
           IN  /\ mat = ret.pre
               /\ (r < 2 \/ c < 2) => ret.err = "InvalidSize"
               /\ (r >= 2 /\ c >= 2)
                    => /\ ret.err = "none"
                       /\ ret.val.rows = r
                       /\ ret.val.cols = c
                       /\ \A i \in 0 .. (r - 1), j \in 0 .. (c - 1) :
                             ret.val.data[i][j] = 0

\* C9 witness: an identity returned to a receiver of another shape that holds
\* a non-zero element.
C9_Witness ==
    /\ ret.op = "makeIdentityMatrix"
    /\ ret.err = "none"
    /\ ret.val.rows = 2
    /\ mat.rows = 1
    /\ mat.cols = 2
    /\ mat.data[0][1] = 1

\* C10: the in-place transposeMatrix() of an m x n matrix, square or not,
\* completes without error and leaves the receiver n x m with
\* new[j][i] = old[i][j].
C10_TransposeInPlace ==
    ret.op = "transposeMatrix"
        => /\ ret.err = "none"
           /\ mat.rows = ret.pre.cols
           /\ mat.cols = ret.pre.rows
           /\ \A i \in 0 .. (ret.pre.rows - 1), j \in 0 .. (ret.pre.cols - 1) :
                 mat.data[j][i] = ret.pre.data[i][j]

\* C11: transposeMatrix(other) returns the transpose of other (other.cols x
\* other.rows, result[j][i] = other[i][j]) whatever the receiver is, and leaves
\* the receiver and other as they were.
C11_TransposeOfOther ==
    ret.op = "transposeMatrix(other)" =>
        /\ ret.err = "none"
        /\ ret.val.rows = ret.args[1].cols
        /\ ret.val.cols = ret.args[1].rows
        /\ \A i \in 0 .. (ret.args[1].rows - 1), j \in 0 .. (ret.args[1].cols - 1) :
              ret.val.data[j][i] = ret.args[1].data[i][j]
        /\ mat = ret.pre
        /\ other = ret.args[1]

\* C12: for matrices A, B, C of one shape, (A + B) + C == A + (B + C) and
\* A + B == B + A are true, and A + zero == A is true for the zero matrix of
\* the shape of A; none of the three expressions raises.
C12_SumLaws ==
    /\ ret.op = "(A+B)+C==A+(B+C)" /\ ret.pre.rows = ret.args[1].rows
                                  /\ ret.pre.cols = ret.args[1].cols
          => ret.err = "none" /\ ret.val = TRUE
    /\ ret.op = "A+B==B+A" /\ ret.pre.rows = ret.args[1].rows
                          /\ ret.pre.cols = ret.args[1].cols
          => ret.err = "none" /\ ret.val = TRUE
    /\ ret.op = "A+zero==A" => ret.err = "none" /\ ret.val = TRUE

\* Three different non-zero 2x2 matrices were summed in both groupings.
C12_Witness ==
    /\ ret.op = "(A+B)+C==A+(B+C)"
    /\ ret.pre.rows = 2 /\ ret.pre.cols = 2
    /\ ret.args[1].rows = 2 /\ ret.args[1].cols = 2
    /\ ret.pre.data[0][1] = 1 /\ ret.args[1].data[0][1] = 0 - 1 /\ ret.args[2].data[1][0] = 1
    /\ ret.val = TRUE

\* The calls that may raise and whose first argument is the matrix other.
AssignOps == {"operator+=", "operator-=", "operator*="}

\* C13: a call that raises leaves its operands as they were: operator+=,
\* operator-= (shapes differ) and operator*= (receiver's columns differ from
\* other's rows) raise DimensionMismatch; setIdentityMatrix,
\* setDiagonalMatrix and setTriangularMatrix raise NotSquare on a non-square
\* receiver, setDiagonalMatrix raises LengthMismatch when the array length is
\* not the number of rows; a raising in-place transposeMatrix, determinant,
\* cofactorMatrix or inverseMatrix changes nothing either.
C13_FailureLeavesOperands ==
    /\ ret.err \notin {"none", "Crash"} => mat = ret.pre
    /\ ret.op \in AssignOps => other = ret.args[1]
    /\ ret.op \in {"operator+=", "operator-="}
          => (ret.err = "DimensionMismatch"
                <=> (ret.pre.rows # other.rows \/ ret.pre.cols # other.cols))
    /\ ret.op = "operator*="
          => (ret.err = "DimensionMismatch" <=> ret.pre.cols # other.rows)
    /\ ret.op \in {"setIdentityMatrix", "setDiagonalMatrix", "setTriangularMatrix"}
          /\ ret.pre.rows # ret.pre.cols
          => ret.err = "NotSquare"
    /\ ret.op = "setDiagonalMatrix" /\ ret.pre.rows = ret.pre.cols
          /\ ret.args[1].len # ret.pre.rows
          => ret.err = "LengthMismatch"

\* operator+= raised on a non-zero 2x2 receiver and a 1x2 argument.
C13_Witness ==
    /\ ret.op = "operator+="
    /\ ret.err = "DimensionMismatch"
    /\ ret.pre.rows = 2 /\ ret.pre.cols = 2 /\ other.rows = 1 /\ other.cols = 2
    /\ mat.data[1][1] = 1

\* C14: a successful setTriangularMatrix(value, isUpper) with isUpper = true
\* leaves value on and above the diagonal and 0 below it, so that
\* isUpperTriangularMatrix() answers true; with isUpper = false it leaves
\* value on and below the diagonal and 0 above it, so that
\* isLowerTriangularMatrix() answers true.
C14_SetTriangular ==
    ret.op = "setTriangularMatrix" /\ ret.err = "none" =>
        LET value == ret.args[1]
            isUpper == ret.args[2]
        IN  /\ mat.rows = ret.pre.rows /\ mat.cols = ret.pre.cols
            /\ \A i \in 0 .. (mat.rows - 1), j \in 0 .. (mat.cols - 1) :
                  mat.data[i][j] = IF isUpper THEN (IF i <= j THEN value ELSE 0)
                                   ELSE (IF i >= j THEN value ELSE 0)
            /\ isUpper => isUpperTriangularMatrix(mat) = {Ok(TRUE)}
            /\ ~isUpper => isLowerTriangularMatrix(mat)

\* C15: isNormalMatrix() answers true for every square matrix that commutes
\* with its transpose and false for every other matrix, non-square ones
\* included; so it is true for every symmetric square matrix and for every
\* matrix for which isOrthogonalMatrix() is true.
C15_IsNormal ==
    ret.op = "isNormalMatrix" =>
        /\ ret.err = "none"
        /\ ret.val = RefNormal(ret.pre)
        /\ isOrthogonalMatrix(ret.pre) = Ok(TRUE) => ret.val = TRUE

\* C16: isOrthogonalMatrix() answers true exactly for the square matrices M
\* with M x Mt = I or Mt x M = I: true for the identity matrix, false for
\* the identity matrix with one diagonal element changed to 2.
C16_IsOrthogonal ==
    ret.op = "isOrthogonalMatrix" =>
        /\ ret.err = "none"
        /\ ret.val = RefOrthogonal(ret.pre)

\* C17: isDiagonalMatrix() answers true exactly for the square matrices whose
\* elements off the diagonal are all 0, whatever the diagonal holds.
C17_IsDiagonal ==
    ret.op = "isDiagonalMatrix" =>
        /\ ret.err = "none"
        /\ ret.val = (/\ ret.pre.rows = ret.pre.cols
                      /\ \A i \in 0 .. (ret.pre.rows - 1), j \in 0 .. (ret.pre.cols - 1) :
                            i # j => ret.pre.data[i][j] = 0)

\* The calls that read A and write nothing.
ReadsOfA == {"A==B", "A.isZeroMatrix", "Matrix(const Matrix&)", "B=A"}

\* C18: after B is move-constructed from A, B has the rows, columns and
\* elements A had and A is a valid empty matrix (0 rows, 0 columns); equality,
\* predicates and copies of A complete without touching storage A does not
\* own.  After a copy construction or copy assignment B = A, B equals A and
\* has storage of its own: a write to B leaves A as it was, and a write to A
\* leaves B as it was.
C18_MoveAndCopy ==
    /\ ret.op = "Matrix(Matrix&&)"
          => /\ ValueOf(heap, other) = ret.pre.A
             /\ mat.rows = 0 /\ mat.cols = 0
             /\ ValueOf(heap, mat) = Matrix(0, 0)
    /\ ret.op \in ReadsOfA => ret.err = "none" /\ ValueOf(heap, mat) = ret.pre.A
    /\ ret.op \in {"Matrix(const Matrix&)", "B=A"}
          => /\ ValueOf(heap, other) = ret.pre.A
             /\ other.data # mat.data
    /\ ret.op = "B(row,col)=v" => ret.err # "Crash" /\ ValueOf(heap, mat) = ret.pre.A
    /\ ret.op = "A(row,col)=v" => ret.err # "Crash" /\ ValueOf(heap, other) = ret.pre.B

\* B, a copy of a non-zero 2x2 matrix A, was written and now differs from A.
C18_Witness ==
    /\ ret.op = "B(row,col)=v"
    /\ ret.err = "none"
    /\ mat.rows = 2 /\ mat.cols = 2 /\ other.rows = 2 /\ other.cols = 2
    /\ other.data > 2
    /\ ret.pre.A = ret.pre.B
    /\ ret.pre.A.data[0][1] = 1
    /\ ValueOf(heap, other) # ValueOf(heap, mat)

\* The entries of sparse matrix M at (row, col).
EntriesAt(M, row, col) ==
    { i \in 1 .. Len(M.values) : M.rowsIndexes[i] = row /\ M.colsIndexes[i] = col }

\* C19: addValue(row, col, value) and getValue(row, col) raise OutOfRange
\* unless row < rows and col < cols; in range getValue returns 0 when nothing
\* is stored at (row, col); and directly after an addValue(r, c, v) with
\* v # 0, whatever was added before, getValue(r, c) returns v.
C19_AddThenGet ==
    /\ ret.op \in {"addValue", "getValue"}
          => (ret.err = "OutOfRange"
                <=> ~(ret.args[1] \in 0 .. (ret.pre.rows - 1)
                        /\ ret.args[2] \in 0 .. (ret.pre.cols - 1)))
    /\ ret.op = "getValue" /\ ret.err = "none"
          /\ EntriesAt(ret.pre, ret.args[1], ret.args[2]) = {}
          => ret.val = 0
    /\ ret.op = "addValue" /\ ret.err = "none" /\ ret.args[3] # 0
          => getValue(mat, ret.args[1], ret.args[2]) = Ok(ret.args[3])

\* C20: a sparse matrix built by addValue calls with indices in range holds
\* at most one entry for each (row, col).
C20_OneEntryPerCell ==
    \A i \in 1 .. Len(mat.values), k \in 1 .. Len(mat.values) :
        (mat.rowsIndexes[i] = mat.rowsIndexes[k]
           /\ mat.colsIndexes[i] = mat.colsIndexes[k]) => i = k

\* The three vectors of sparse matrix M have one length and no stored value
\* is 0.
WellFormedSparse(M) ==
    /\ Len(M.rowsIndexes) = Len(M.values)
    /\ Len(M.colsIndexes) = Len(M.values)
    /\ \A i \in 1 .. Len(M.values) : M.values[i] # 0

\* C21: after any sequence of addValue, scaleSparseMatrix, operator*(scalar),
\* operator*=, transposeSparseMatrix, fillDiagonalSparseMatrix and
\* clearSparseMatrix, value 0 and scalar 0 included, rowsIndexes, colsIndexes
\* and values of the matrix (and of a returned matrix) have the same length
\* and no stored entry has value 0.
C21_NoStoredZero ==
    /\ WellFormedSparse(mat)
    /\ ret.op \in {"operator*(scalar)", "transposeSparseMatrix"} => WellFormedSparse(ret.val)

\* C22: for sparse A and B of one shape, each with at most one entry per
\* coordinate and entries in any order, (A + B).getValue(r, c) is
\* A.getValue(r, c) + B.getValue(r, c) and (A - B).getValue(r, c) is
\* A.getValue(r, c) - B.getValue(r, c) for every (r, c) in range; operands of
\* different shapes raise DimensionMismatch.
C22_SparseSum ==
    ret.op \in {"operator+", "operator-"} =>
        IF ret.pre.rows # other.rows \/ ret.pre.cols # other.cols
        THEN ret.err = "DimensionMismatch"
        ELSE /\ ret.err = "none"
             /\ \A r \in 0 .. (mat.rows - 1), c \in 0 .. (mat.cols - 1) :
                   getValue(ret.val, r, c).val =
                       getValue(mat, r, c).val
                         + (IF ret.op = "operator+" THEN 1 ELSE 0 - 1)
                             * getValue(other, r, c).val

\* C23: for sparse A of shape r x k and B of shape k x c, each with at most
\* one entry per coordinate, A * B has shape r x c and (A * B).getValue(i, j)
\* is the sum over t of A.getValue(i, t) * B.getValue(t, j), also for cells
\* that receive more than one non-zero product; A.cols # B.rows raises
\* DimensionMismatch.
C23_SparseProduct ==
    ret.op = "operator*" =>
        IF mat.cols # other.rows
        THEN ret.err = "DimensionMismatch"
        ELSE /\ ret.err = "none"
             /\ ret.val.rows = mat.rows
             /\ ret.val.cols = other.cols
             /\ \A i \in 0 .. (mat.rows - 1), j \in 0 .. (other.cols - 1) :
                   getValue(ret.val, i, j).val =
                       RefSum([t \in 0 .. (mat.cols - 1) |->
                                 getValue(mat, i, t).val * getValue(other, t, j).val],
                              mat.cols)

\* The dense matrix D with D[i][j] = S.getValue(i, j).
DenseOf(S) ==
    [rows |-> S.rows, cols |-> S.cols,
     data |-> [i \in 0 .. (S.rows - 1) |->
                [j \in 0 .. (S.cols - 1) |-> getValue(S, i, j).val]]]

OneEntryPerCell(S) ==
    \A p \in 1 .. Len(S.values), q \in 1 .. Len(S.values) :
        (S.rowsIndexes[p] = S.rowsIndexes[q] /\ S.colsIndexes[p] = S.colsIndexes[q])
            => p = q

\* C24: for a square sparse matrix S of size 1 .. 3 with at most one entry
\* per coordinate, in any insertion order, determinantSparseMatrix() is the
\* determinant of the dense matrix of S's getValue; a non-square S raises
\* NotSquare; minorSparseMatrix(r, c) has shape (n-1) x (n-1) and holds
\* exactly the entries of S outside row r and column c, with the indices
\* past the deletion lowered by one.
C24_SparseDeterminant ==
    /\ ret.op = "determinantSparseMatrix" =>
          IF mat.rows # mat.cols THEN ret.err = "NotSquare"
          ELSE (mat.rows \in 1 .. 3 /\ OneEntryPerCell(mat)) =>
                  /\ ret.err = "none"
                  /\ ret.val = RefDet(DenseOf(mat))
    /\ (/\ ret.op = "minorSparseMatrix"
        /\ mat.rows = mat.cols
        /\ mat.rows \in 1 .. 3
        /\ OneEntryPerCell(mat)) =>
          /\ ret.err = "none"
          /\ ret.val.rows = mat.rows - 1
          /\ ret.val.cols = mat.cols - 1
          /\ OneEntryPerCell(ret.val)
          /\ DenseOf(ret.val) = RefMinor(DenseOf(mat), ret.args[1], ret.args[2])
          /\ Len(ret.val.values) =
                Cardinality({ p \in 1 .. Len(mat.values) :
                                /\ mat.rowsIndexes[p] # ret.args[1]
                                /\ mat.colsIndexes[p] # ret.args[2] })

\* A 3 x 3 matrix with entries inserted out of row-major order and a
\* determinant other than 0 has had its determinant taken.
C24_Witness ==
    /\ ret.op = "determinantSparseMatrix"
    /\ mat.rows = 3
    /\ mat.cols = 3
    /\ Len(mat.values) = 3
    /\ mat.rowsIndexes[1] > mat.rowsIndexes[2]
    /\ ret.err = "none"
    /\ ret.val # 0

\* C25: isIdentitySparseMatrix() is TRUE exactly when the matrix is square
\* with getValue(i, i) = 1 and getValue(i, j) = 0 for i # j: TRUE after
\* fillDiagonalSparseMatrix(1) on a square matrix, FALSE for a square matrix
\* with a diagonal coordinate that has no stored entry.
C25_IsIdentitySparse ==
    ret.op \in {"isIdentitySparseMatrix", "fillDiagonalSparseMatrix;isIdentitySparseMatrix"} =>
        ret.val = (/\ mat.rows = mat.cols
                   /\ \A i \in 0 .. (mat.rows - 1), j \in 0 .. (mat.cols - 1) :
                         getValue(mat, i, j).val = IF i = j THEN 1 ELSE 0)

\* The least q with q * b >= n.
RefCeil(n, b) == CHOOSE q \in 0 .. n : q * b >= n /\ (q = 0 \/ (q - 1) * b < n)

\* C26: for logical size m x n and block shape br x bc (br, bc >= 2) the
\* tile grid has ceil(m / br) rows and ceil(n / bc) columns, and
\* getBlockCount() returns ceil(m / br) * ceil(n / bc).
C26_BlockCount ==
    /\ DOMAIN mat.data = 0 .. (RefCeil(mat.rows, mat.blockRows) - 1)
    /\ \A i \in DOMAIN mat.data :
          DOMAIN mat.data[i] = 0 .. (RefCeil(mat.cols, mat.blockCols) - 1)
    /\ ret.op = "getBlockCount" =>
          ret.val = RefCeil(mat.rows, mat.blockRows) * RefCeil(mat.cols, mat.blockCols)

\* Every tile of B's grid has blockRows_ rows and blockCols_ columns.
TilesShaped(B) ==
    \A i \in DOMAIN B.data : \A j \in DOMAIN B.data[i] :
        B.data[i][j].rows = B.blockRows /\ B.data[i][j].cols = B.blockCols

BlockResults ==
    {"operator+", "operator-", "operator*", "operator*(scalar)",
     "BlockMatrix(const BlockMatrix&)", "operator="}

\* C27: after every constructor, copy, copy assignment, operator+,
\* operator-, operator*(scalar) and operator*(BlockMatrix), every tile of
\* the grid has exactly blockRows rows and blockCols columns.
C27_TileShape ==
    /\ TilesShaped(mat)
    /\ TilesShaped(other)
    /\ (ret.op \in BlockResults /\ ret.err = "none") => TilesShaped(ret.val)

\* The dense matrix that the tiles of B lay out.
Flat(B) ==
    [rows |-> numBlocksRow(B) * B.blockRows, cols |-> numBlocksCol(B) * B.blockCols,
     data |-> [i \in 0 .. (numBlocksRow(B) * B.blockRows - 1) |->
                [j \in 0 .. (numBlocksCol(B) * B.blockCols - 1) |->
                   B.data[i \div B.blockRows][j \div B.blockCols]
                     .data[i % B.blockRows][j % B.blockCols]]]]

\* The k-fold product of M with itself, k >= 1.
RECURSIVE RefPower(_, _)
RefPower(M, k) == IF k <= 1 THEN M ELSE RefProduct(RefPower(M, k - 1), M)

\* C28: for a square block matrix A, pow(0) returns without error the block
\* identity of A's shape (diagonal tiles identity matrices of the tile's
\* size, the other tiles zero), pow(1) is A and pow(k), k >= 2, is the
\* k-fold product of A with itself; pow on a non-square block matrix raises
\* an error.
C28_Pow ==
    ret.op = "pow" =>
        IF mat.rows # mat.cols THEN ret.err \notin {"none", "Crash"}
        ELSE /\ ret.args[1] = 0 =>
                  /\ ret.err = "none"
                  /\ ret.val.rows = mat.rows
                  /\ ret.val.cols = mat.cols
                  /\ ret.val.blockRows = mat.blockRows
                  /\ ret.val.blockCols = mat.blockCols
                  /\ \A i \in DOMAIN ret.val.data : \A j \in DOMAIN ret.val.data[i] :
                        /\ ret.val.data[i][j].rows = mat.blockRows
                        /\ ret.val.data[i][j].cols = mat.blockCols
                        /\ \A p \in 0 .. (mat.blockRows - 1), q \in 0 .. (mat.blockCols - 1) :
                              ret.val.data[i][j].data[p][q] =
                                  IF i = j /\ p = q THEN 1 ELSE 0
             /\ ret.args[1] = 1 => ret.err = "none" /\ ret.val = mat
             /\ (/\ ret.args[1] >= 2
                 /\ TilesShaped(mat)
                 /\ mat.blockRows = mat.blockCols) =>
                  /\ ret.err = "none"
                  /\ Flat(ret.val) = RefPower(Flat(mat), ret.args[1])

\* C29: getBlock(blockRow, blockCol) and operator()(blockRow, blockCol)
\* return tile (blockRow, blockCol) for every blockRow < ceil(rows / blockRows)
\* and blockCol < ceil(cols / blockCols), indices 0 and 1 included, and raise
\* OutOfRange only outside the grid.
C29_GetBlock ==
    ret.op \in {"getBlock", "operator()"} =>
        IF /\ ret.args[1] < RefCeil(mat.rows, mat.blockRows)
           /\ ret.args[2] < RefCeil(mat.cols, mat.blockCols)
        THEN ret.err = "none" /\ ret.val = mat.data[ret.args[1]][ret.args[2]]
        ELSE ret.err = "OutOfRange"

\* C30: isSymmetric, transposeBlockMatrix, concat, frobeniusNorm, operator*
\* and the max/min block searches index only tiles inside the grid of the
\* matrix indexed: no call of theirs leaves a grid.
C30_TilesInsideGrid ==
    ret.op \in {"isSymmetric", "transposeBlockMatrix", "concat", "frobeniusNorm",
                "operator*", "findMaxElementBlockMatrixBlock",
                "findMinElementBlockMatrixBlock"} =>
        ret.err # "Crash"

====
